---------------------------- MODULE Spec2Model ----------------------------
(***************************************************************************)
(* Model of the plan-execution and failure-recovery loop of AIAgent        *)
(* (src/app.py): the failure counter, the frozen-tool set, the stall       *)
(* detector, the dynamic_sequence splice, the iteration budget of          *)
(* execute_plan, and the post-step GUI verification of                     *)
(* _post_verify_ui_step.                                                   *)
(*                                                                         *)
(* The specifications share the variables:                                 *)
(*   SpecCounter  the three failure-counter methods on string keys         *)
(*   SpecVerify   _post_verify_ui_step applied to one step record          *)
(*   Spec         run_task / execute_plan, one action per plan element     *)
(*   SpecElements Spec, and plans with an element that is no object        *)
(*   SpecBudget   execute_plan against a model that lets every step fail   *)
(*                and answers every repair request with another step       *)
(*   SpecDetect   check_task_completion on a task text and a history       *)
(*   SpecNormalize _normalize_tool_result on a raw tool result             *)
(*   SpecDispatch execute_tool on a tool call and an operation             *)
(*   SpecExtract  _extract_json_from_text on a decoded JSON text           *)
(*   SpecPlan     create_task_plan and _rule_based_plan on a task text     *)
(*   SpecClassify one dispatched step: execute_tool and the classification *)
(*   SpecGui      run_task / execute_plan with a desktop: coordinates and  *)
(*                the synthesized GUI flow                                 *)
(*   SpecOnce     execute_plan called with iterative=False                 *)
(*   SpecCascade  _handle_repeated_failure on a failed step and a counter  *)
(*   SpecFrozen   Spec on plans whose first step gets frozen                *)
(*   SpecRecovery Spec with error-recovery plans nested MaxNesting deep     *)
(*   SpecScheduler the task scheduler of src/win_command_func.py: a task,  *)
(*                the thread that runs it and a cancelling thread          *)
(***************************************************************************)
EXTENDS Integers, Sequences, FiniteSets, TLC

\* ------------------------------------------------------------------ bounds
\* Highest counter value the counter specification drives a key to.
MaxCount == 2
\* Largest verify_max_attempts the verification specification configures.
MaxAttemptsCfg == 6
\* Number of runs (run_task calls) on one agent instance.
MaxRuns == 2
\* Largest value of a failure counter that _handle_repeated_failure is
\* called with in the cascade specification.
MaxFailures == 4
\* Number of replacement steps and recovery plans the model collaborator
\* hands out per run in the general specification.
MaxReplans == 2
\* Number of plan elements the general specification lets the loop take up,
\* counted over all runs of the agent.
MaxSteps == 4
\* The same number in the specification of the runs with a desktop.
MaxGuiSteps == 3
\* Nesting depth of error-recovery sub-plans the model collaborator feeds.
MaxRecoveryDepth == 1
\* The same depth in the specification of the error recovery.
MaxNesting == 2
\* Number of executions of a recurring task's action in the scheduler
\* specification.
MaxFirings == 2
\* Number of cancel_scheduled_task calls in the scheduler specification.
MaxCancels == 2

\* --------------------------------------------------------- program constants
\* execute_plan: max_iterations = 60
max_iterations == 60
\* stall detector threshold: repeat_fail_count >= 2
StallThreshold == 2
\* freeze threshold of the description-keyed counter: count >= 2
FreezeThreshold == 2
\* _handle_repeated_failure: failed_count >= 3
RepeatedFailureThreshold == 3
\* gui_verify_max_attempts default
DefaultVerifyMaxAttempts == 3

VARIABLES
    \* ---- AIAgent fields (live as long as the agent object)
    failed_attempts,        \* dict key string -> int
    frozen_tools,           \* self._frozen_tools
    gui_verify_policy,      \* "always" | "on_failure" | "never"
    gui_verify_max_attempts,
    gui_refocus_retry,
    gui_refocus_offsets,    \* list of <<dx, dy>>
    \* ---- locals of the running execute_plan
    pc,                     \* "idle" | "while" | "for" | "done"
    iteration,
    current_plan,
    idx,                    \* position of the for loop in current_plan
    executed,               \* the history list
    prev_signature,
    repeat_fail_count,
    iterative,
    stop_on_failure,
    last_icon_coords,       \* <<>> (None) | <<x, y>>
    last_analyzed_coords,   \* <<>> (None) | <<x, y>>
    gui_automation_active,
    \* ---- the collaborators' behaviour and observations of the run
    env,                    \* replans handed out, run number, the model's mood
    obs,                    \* what the last action did (dispatches, counter op)
    \* ---- the step record _post_verify_ui_step works on (SpecVerify)
    step_result

agentVars == <<failed_attempts, frozen_tools, gui_verify_policy,
               gui_verify_max_attempts, gui_refocus_retry, gui_refocus_offsets>>
coordVars == <<last_icon_coords, last_analyzed_coords, gui_automation_active>>
loopVars == <<pc, iteration, current_plan, idx, executed, prev_signature,
              repeat_fail_count, iterative, stop_on_failure, coordVars>>
guiVars == <<gui_verify_policy, gui_verify_max_attempts, gui_refocus_retry,
             gui_refocus_offsets>>
vars == <<failed_attempts, frozen_tools, gui_verify_policy,
          gui_verify_max_attempts, gui_refocus_retry, gui_refocus_offsets,
          pc, iteration, current_plan, idx, executed, prev_signature,
          repeat_fail_count, iterative, stop_on_failure, last_icon_coords,
          last_analyzed_coords, gui_automation_active, env, obs, step_result>>

Min(a, b) == IF a < b THEN a ELSE b

\* None of Python
None == "None"
\* None where the other values are pairs of coordinates
NoCoords == <<>>

\* ------------------------------------------------------ the failure counter
\* key = f"{step_description}_{tool_name}"
CounterKey(step_description, tool_name) == step_description \o "_" \o tool_name

\* self.failed_attempts.get(key, 0)
DictGet(d, key) == IF key \in DOMAIN d THEN d[key] ELSE 0

\* d[key] = value
DictSet(d, key, value) ==
    [k \in (DOMAIN d) \cup {key} |-> IF k = key THEN value ELSE d[k]]

EmptyDict == [k \in {} |-> 0]

_count_failed_attempts(fa, step_description, tool_name) ==
    DictGet(fa, CounterKey(step_description, tool_name))

_increment_failed_attempts(fa, step_description, tool_name) ==
    DictSet(fa, CounterKey(step_description, tool_name),
            DictGet(fa, CounterKey(step_description, tool_name)) + 1)

_reset_failed_attempts(fa, step_description, tool_name) ==
    DictSet(fa, CounterKey(step_description, tool_name), 0)


\* --------------------------------------------------- GUI verification config
\* gui_cfg.get("refocus_offsets", [[0, 0], [8, 0], [-8, 0], [0, 8], [0, -8]])
DefaultRefocusOffsets == << <<0, 0>>, <<8, 0>>, <<-8, 0>>, <<0, 8>>, <<0, -8>> >>

VerifyPolicies == {"always", "on_failure", "never"}

WebVerifiedTools == {"navigate_to_url", "fill_form", "click_element"}

\* ---------------------------------------------------------- vision answers
\* What execute_tool("analyze_screen_region") hands back, by what decides the
\* outcome of _extract_coordinate_analysis:
\*   text     "json"  the analysis text parses to a JSON object
\*            "plain" the analysis text is no JSON
\*            "empty" no analysis text (the payload is then the result map)
\*   jstatus  the "status" of the JSON object
\*   ncoords  number of map entries of its "coordinates" list
\*   yes, no  whether the lower-cased raw text contains "yes" / "no"
\*   rstatus  the status of the result map itself
AnsFailEmpty ==
    [text |-> "json", jstatus |-> "fail", ncoords |-> 0, yes |-> FALSE,
     no |-> FALSE, rstatus |-> "success"]
AnsJsonSuccess ==
    [text |-> "json", jstatus |-> "success", ncoords |-> 1, yes |-> FALSE,
     no |-> FALSE, rstatus |-> "success"]
AnsPlainYes ==
    [text |-> "plain", jstatus |-> "", ncoords |-> 0, yes |-> TRUE,
     no |-> FALSE, rstatus |-> "success"]
AnsPlainNo ==
    [text |-> "plain", jstatus |-> "", ncoords |-> 0, yes |-> FALSE,
     no |-> TRUE, rstatus |-> "success"]
AnsToolError ==
    [text |-> "empty", jstatus |-> "", ncoords |-> 0, yes |-> FALSE,
     no |-> FALSE, rstatus |-> "error"]
AnsEmptyText ==
    [text |-> "empty", jstatus |-> "", ncoords |-> 0, yes |-> FALSE,
     no |-> FALSE, rstatus |-> "success"]

\* _extract_coordinate_analysis: (ok, number of coordinates)
_extract_coordinate_analysis(a) ==
    CASE a.text = "json" ->
            [ok |-> (a.jstatus = "success" \/ a.ncoords > 0), ncoords |-> a.ncoords]
      [] a.text = "empty" ->
            \* json.loads fails on str(dict); parsed = the result map itself
            [ok |-> (a.rstatus = "success"), ncoords |-> 0]
      [] OTHER ->
            [ok |-> (a.yes /\ ~a.no), ncoords |-> 0]

\* ok after lines 1583-1586 / 1617-1620: the extraction, then the yes/no text test
AnalysisConfirms(a) ==
    \/ _extract_coordinate_analysis(a).ok
    \/ (a.yes /\ ~a.no)

\* The analyzer's answers during one verification: the first analysis, then
\* answer k of the refocus loop.  After the first confirming answer the loop
\* stops, so the answers are given as: one kind for the attempts that do not
\* confirm, and the attempt (0: none) that confirms, with its kind.
AnswerAt(vin, k) ==
    IF k = 0 THEN vin.first
    ELSE IF k = vin.confirmAt THEN vin.confirmKind
    ELSE vin.failKind

\* The refocus loop, lines 1603-1644, from offset k on.
\* st = [sr, attempts, ok, returned]
RECURSIVE RefocusLoop(_, _, _, _, _, _, _)
RefocusLoop(st, k, x, y, offsets, max_attempts, vin) ==
    IF k > Len(offsets) \/ st.attempts >= max_attempts
    THEN st
    ELSE LET a == AnswerAt(vin, k)
             e == _extract_coordinate_analysis(a)
             ok2 == AnalysisConfirms(a)
             nx == x + offsets[k][1]
             ny == y + offsets[k][2]
         IN IF ~ok2 /\ e.ncoords > 0
            THEN [st EXCEPT !.sr.verification_attempts =
                                Append(@, [coords |-> <<0, 0>>, ok |-> TRUE,
                                           from |-> "analysis_json"]),
                            !.returned = TRUE]
            ELSE LET st2 == [st EXCEPT !.sr.verification_attempts =
                                           Append(@, [coords |-> <<nx, ny>>,
                                                      ok |-> ok2,
                                                      from |-> "refocus"]),
                                       !.attempts = @ + 1,
                                       !.ok = ok2]
                 IN IF ok2 THEN st2
                    ELSE RefocusLoop(st2, k + 1, x, y, offsets, max_attempts, vin)

\* A verification that downgrades the step it could not confirm.
WarnAndFailStep(st) ==
    IF ~st.returned /\ ~st.ok
    THEN [st.sr EXCEPT !.verification = "warning", !.status = "failed"]
    ELSE st.sr

\* A verification that never reports the missing confirmation.
WarnNever(st) == st.sr

\* lines 1645-1646
WarnIfUnconfirmed(st) ==
    IF ~st.returned /\ ~st.ok
    THEN [st.sr EXCEPT !.verification = "warning"]
    ELSE st.sr

\* _post_verify_ui_step(tool_name, args, step_result): the step record after it.
\* cfg = [policy, max_attempts, refocus_retry, offsets]; vin = the collaborators'
\* answers: shot_error, has_template (web branch), raises (a collaborator
\* raises inside the outer try: the browser screenshot of line 1523, or
\* _clamp_region of line 1567), first/confirmAt/confirmKind/failKind (vision
\* answers).
ArgOr(args, key, default) == IF key \in DOMAIN args THEN args[key] ELSE default
_post_verify_ui_step(tool_name, args, sr, cfg, vin) ==
    IF tool_name \in WebVerifiedTools
    THEN IF vin.raises THEN [sr EXCEPT !.verification = "error"]
         ELSE IF vin.shot_error THEN [sr EXCEPT !.verification = "error"]
         ELSE IF ~vin.has_template THEN [sr EXCEPT !.verification = "skipped"]
         ELSE [sr EXCEPT !.verification = "done"]
    ELSE IF cfg.policy = "never" THEN sr
    ELSE IF tool_name # "click_at_coordinates" THEN sr
    ELSE IF ~(ArgOr(args, "x", -1) >= 0 /\ ArgOr(args, "y", -1) >= 0) THEN sr
    ELSE IF cfg.policy = "on_failure" /\ sr.status = "success" THEN sr
    ELSE IF vin.raises THEN [sr EXCEPT !.verification = "error"]
    ELSE LET sr1 == [sr EXCEPT !.verification = "done"]
             a0 == AnswerAt(vin, 0)
             e0 == _extract_coordinate_analysis(a0)
             ok0 == AnalysisConfirms(a0)
         IN IF ~ok0 /\ e0.ncoords > 0
            THEN [sr1 EXCEPT !.verification_attempts =
                                 Append(@, [coords |-> <<0, 0>>, ok |-> TRUE,
                                            from |-> "analysis_json"])]
            ELSE LET st0 == [sr |-> sr1, attempts |-> 0, ok |-> ok0,
                             returned |-> FALSE]
                 IN IF ~ok0 /\ cfg.refocus_retry
                    THEN WarnIfUnconfirmed(
                             RefocusLoop(st0, 1, args.x, args.y, cfg.offsets,
                                         cfg.max_attempts, vin))
                    ELSE WarnIfUnconfirmed(st0)

\* The tool names _post_verify_ui_step passes to execute_tool, in order.
\* lines 1550-1560: the conditions under which the click branch goes on
VerifiesClick(tool_name, args, sr, cfg) ==
    /\ tool_name \notin WebVerifiedTools
    /\ cfg.policy # "never"
    /\ tool_name = "click_at_coordinates"
    /\ ArgOr(args, "x", -1) >= 0
    /\ ArgOr(args, "y", -1) >= 0
    /\ ~(cfg.policy = "on_failure" /\ sr.status = "success")
\* lines 1608-1625 per entry of verification_attempts the refocus loop wrote
RECURSIVE AttemptDispatches(_, _)
AttemptDispatches(attempts, k) ==
    IF k > Len(attempts) THEN <<>>
    ELSE <<"click_at_coordinates", "wait_for_seconds", "analyze_screen_region">>
         \o (IF attempts[k].from = "analysis_json"
             THEN <<"click_at_coordinates">> ELSE <<>>)
         \o AttemptDispatches(attempts, k + 1)
\* lines 1562, 1572, 1591 and the refocus loop
VerifyDispatched(tool_name, args, sr, cfg, vin) ==
    LET a0 == AnswerAt(vin, 0)
        after == _post_verify_ui_step(tool_name, args, sr, cfg, vin)
    IN IF ~VerifiesClick(tool_name, args, sr, cfg) THEN <<>>
       ELSE IF vin.raises THEN <<"take_desktop_screenshot">>
       ELSE <<"take_desktop_screenshot", "analyze_screen_region">>
            \o (IF /\ ~AnalysisConfirms(a0)
                   /\ _extract_coordinate_analysis(a0).ncoords > 0
                THEN <<"click_at_coordinates">>
                ELSE AttemptDispatches(after.verification_attempts, 1))

GuiConfig ==
    [policy |-> gui_verify_policy, max_attempts |-> gui_verify_max_attempts,
     refocus_retry |-> gui_refocus_retry, offsets |-> gui_refocus_offsets]


\* ----------------------------------------------- state shared by the specs
\* AIAgent.__init__ with no instruct.json "gui" section: lines 60-62, 165-183
InitAgentDefaults ==
    /\ failed_attempts = EmptyDict
    /\ frozen_tools = {}
    /\ gui_verify_policy = "always"
    /\ gui_verify_max_attempts = DefaultVerifyMaxAttempts
    /\ gui_refocus_retry = TRUE
    /\ gui_refocus_offsets = DefaultRefocusOffsets

NoStepResult ==
    [tool |-> None, args |-> None, status |-> None, verification |-> None,
     verification_attempts |-> <<>>]

\* No execute_plan is running.
InitNoLoop ==
    /\ iteration = 0
    /\ current_plan = <<>>
    /\ idx = 0
    /\ executed = <<>>
    /\ prev_signature = <<>>
    /\ repeat_fail_count = 0
    /\ iterative = TRUE
    /\ stop_on_failure = TRUE
    /\ last_icon_coords = NoCoords
    /\ last_analyzed_coords = NoCoords
    /\ gui_automation_active = FALSE

\* ============================================================ SpecCounter
\* The counter methods called with descriptions and tool names that contain
\* the separator character of the key.
CounterDescriptions == {"scan", "scan_read", "open"}
CounterTools == {"read_file", "file"}
CounterPairs == CounterDescriptions \X CounterTools

InitCounter ==
    /\ InitAgentDefaults
    /\ InitNoLoop
    /\ pc = "counter"
    /\ env = None
    /\ obs = [op |-> "none", description |-> "", tool |-> ""]
    /\ step_result = NoStepResult

CounterIncrement(d, t) ==
    /\ pc = "counter"
    /\ _count_failed_attempts(failed_attempts, d, t) < MaxCount
    /\ failed_attempts' = _increment_failed_attempts(failed_attempts, d, t)
    /\ obs' = [op |-> "increment", description |-> d, tool |-> t]
    /\ UNCHANGED <<frozen_tools, guiVars, loopVars, env, step_result>>

CounterReset(d, t) ==
    /\ pc = "counter"
    /\ failed_attempts' = _reset_failed_attempts(failed_attempts, d, t)
    /\ obs' = [op |-> "reset", description |-> d, tool |-> t]
    /\ UNCHANGED <<frozen_tools, guiVars, loopVars, env, step_result>>

NextCounter ==
    \E d \in CounterDescriptions, t \in CounterTools :
        \/ CounterIncrement(d, t)
        \/ CounterReset(d, t)

SpecCounter == InitCounter /\ [][NextCounter]_vars

\* ============================================================= SpecVerify
\* _post_verify_ui_step applied once to the record of a step that execute_plan
\* classified success (line 2673), under every configuration __init__ accepts.
VerifyTools == {"click_at_coordinates", "navigate_to_url", "read_file"}
VerifyArgs == {[x |-> 100, y |-> 200], [x |-> -1, y |-> -1]}

OffsetPrefixes ==
    {SubSeq(DefaultRefocusOffsets, 1, n) : n \in 0..Len(DefaultRefocusOffsets)}

ConfirmingAnswers == {AnsJsonSuccess, AnsPlainYes, AnsEmptyText}
UnconfirmingAnswers == {AnsFailEmpty, AnsPlainNo, AnsToolError}

\* The collaborators' answers that matter for the tool being verified: the
\* web branch reads the browser screenshot and the prompt template, the
\* click branch the vision answers; an exception ends either.
QuietAnswers ==
    [first |-> AnsFailEmpty, confirmAt |-> 0, confirmKind |-> AnsJsonSuccess,
     failKind |-> AnsFailEmpty, shot_error |-> FALSE, has_template |-> TRUE,
     raises |-> FALSE]

VisionInputs ==
    {[QuietAnswers EXCEPT !.first = f, !.confirmAt = c, !.confirmKind = k,
                          !.failKind = u] :
        f \in ConfirmingAnswers \cup UnconfirmingAnswers,
        c \in 0..Len(DefaultRefocusOffsets),
        k \in {AnsJsonSuccess, AnsPlainYes},
        u \in UnconfirmingAnswers}

WebInputs ==
    {[QuietAnswers EXCEPT !.shot_error = e, !.has_template = t] :
        e \in BOOLEAN, t \in BOOLEAN}

VerifyInputs(tool) ==
    {[QuietAnswers EXCEPT !.raises = TRUE]} \cup
    (IF tool \in WebVerifiedTools THEN WebInputs
     ELSE IF tool = "click_at_coordinates"
     THEN {v \in VisionInputs : v.confirmAt = 0 => v.confirmKind = AnsJsonSuccess}
     ELSE {QuietAnswers})

InitVerify ==
    /\ failed_attempts = EmptyDict
    /\ frozen_tools = {}
    /\ gui_verify_policy \in VerifyPolicies
    /\ gui_verify_max_attempts \in 1..MaxAttemptsCfg
    /\ gui_refocus_retry \in BOOLEAN
    /\ gui_refocus_offsets \in OffsetPrefixes
    /\ InitNoLoop
    /\ pc = "verify"
    /\ env = None
    /\ obs = None
    /\ step_result \in [tool : VerifyTools, args : VerifyArgs, status : {"success"},
                        verification : {None}, verification_attempts : {<<>>}]

PostVerify(vin) ==
    /\ pc = "verify"
    /\ step_result' = _post_verify_ui_step(step_result.tool, step_result.args,
                                           step_result, GuiConfig, vin)
    /\ obs' = vin
    /\ pc' = "verified"
    /\ UNCHANGED <<failed_attempts, frozen_tools, guiVars, coordVars, iteration,
                   current_plan, idx, executed, prev_signature,
                   repeat_fail_count, iterative, stop_on_failure, env>>

NextVerify == \E vin \in VerifyInputs(step_result.tool) : PostVerify(vin)

SpecVerify == InitVerify /\ [][NextVerify]_vars


\* =================================================================== Spec
\* run_task and the iterative execute_plan, one action per plan element.

\* ------------------------------------------------------- steps and plans
ReadX ==
    [description |-> "read the notes", tool |-> "read_file",
     args |-> [filepath |-> "X"]]
\* the same call under another description: another counter key, same signature
ReadXAgain ==
    [description |-> "read the notes again", tool |-> "read_file",
     args |-> [filepath |-> "X"]]
\* the same description and tool with another argument: same key, other signature
ReadY ==
    [description |-> "read the notes", tool |-> "read_file",
     args |-> [filepath |-> "Y"]]
\* the same call again, as a recovery plan words it
ReadBackup ==
    [description |-> "read the notes once more", tool |-> "read_file",
     args |-> [filepath |-> "X"]]
Click ==
    [description |-> "click the button", tool |-> "click_at_coordinates",
     args |-> [x |-> 100, y |-> 200]]
\* a step of the shape _sequence_response builds (lines 386-395)
DynSeq ==
    [description |-> "dynamic_sequence", tool |-> "dynamic_sequence",
     args |-> [sequence |-> <<ReadY, Click>>]]
\* a model-proposed step that names the sentinel but carries no list
DynNoList ==
    [description |-> "run the fallback", tool |-> "dynamic_sequence",
     args |-> [note |-> "none"]]
\* a fallback whose sequence is the empty list
DynEmpty ==
    [description |-> "dynamic_sequence", tool |-> "dynamic_sequence",
     args |-> [sequence |-> <<>>]]
\* a model-proposed step without "tool" and "name"
NoToolStep ==
    [description |-> "think", tool |-> None, args |-> [note |-> "none"]]

\* ------------------------------------------------------ the desktop steps
\* tool classes of lines 2639 and 2699
LaunchTools == {"open_application", "open_application_advanced"}
AnalysisTools == {"analyze_screen_region", "analyze_image"}

Shot ==
    [description |-> "take a screenshot of the desktop",
     tool |-> "take_desktop_screenshot", args |-> [filename |-> "desktop"]]
Analyze ==
    [description |-> "find the input field", tool |-> "analyze_screen_region",
     args |-> [question |-> "where is the input field"]]
Locate ==
    [description |-> "locate the icon", tool |-> "locate_app_icon_on_desktop",
     args |-> [app_name |-> "Telegram"]]
\* a click that leaves the coordinates to a preceding analysis (line 417)
ClickZero ==
    [description |-> "click the coordinates found",
     tool |-> "click_at_coordinates", args |-> [x |-> 0, y |-> 0]]
\* a click whose arguments name no coordinates
ClickBare ==
    [description |-> "click the icon", tool |-> "click_at_coordinates",
     args |-> [button |-> "left"]]

\* _build_gui_automation_flow (lines 3142-3426) for a task text without the
\* search verbs of line 3228: the focus step, and for a message task the
\* steps of lines 3344-3424.  The descriptions are worded in English, with
\* the English markers of _detect_task_completion where the originals carry
\* the Russian ones.
FlowMessageWords == {"send", "message"}
FlowFocus ==
    [description |-> "focus and maximize the application window",
     tool |-> "focus_window", args |-> [app_name |-> "app", maximize |-> TRUE]]
FlowChatShot ==
    [description |-> "screenshot of the opened chat",
     tool |-> "take_desktop_screenshot", args |-> [filename |-> "chat_opened"]]
FlowAnalyze ==
    [description |-> "analyze the interface for the input field",
     tool |-> "analyze_screen_region",
     args |-> [x |-> 0, y |-> 0, width |-> 1920, height |-> 1080,
               question |-> "find the input field of the chat"]]
FlowClick ==
    [description |-> "click the input field (960, 1000)",
     tool |-> "click_at_coordinates", args |-> [x |-> 960, y |-> 1000]]
FlowWait ==
    [description |-> "pause to activate the input field",
     tool |-> "wait_for_seconds", args |-> [seconds |-> 1]]
FlowType ==
    [description |-> "type the message: hello", tool |-> "type_text",
     args |-> [text |-> "hello"]]
FlowSend ==
    [description |-> "send the message (Enter)", tool |-> "press_key",
     args |-> [key |-> "Return"]]
FlowWaitSent ==
    [description |-> "wait for the message to be sent",
     tool |-> "wait_for_seconds", args |-> [seconds |-> 2]]
FlowFinalShot ==
    [description |-> "final screenshot - confirmation of the sending",
     tool |-> "take_desktop_screenshot", args |-> [filename |-> "message_sent"]]
FlowMessageSteps ==
    <<FlowChatShot, FlowAnalyze, FlowClick, FlowWait, FlowType, FlowSend,
      FlowWaitSent, FlowFinalShot>>

\* create_task_plan's results (non-empty plans)
InitialPlans ==
    {<<ReadX, Click>>, <<DynSeq>>, <<DynNoList>>, <<DynEmpty>>,
     <<NoToolStep, ReadY>>}

\* steps the model hands out as oracle next step, single-step fix or
\* last-resort next step
ReplanSteps == {ReadX, Click}

\* plans the model hands out on an error-recovery request
RecoveryPlans == {<<Click, ReadBackup>>}

\* step.get("args", {}) or {}
StepArgs(step) == IF "args" \in DOMAIN step THEN step.args ELSE [none |-> TRUE]

\* sig = f"{tool_name}|{json.dumps(args, sort_keys=True)}" (line 2650): the
\* serialisation is one-to-one on the argument maps of the model.
Signature(tool_name, args) == <<tool_name, args>>
NoSignature == <<>>

\* ---------------------------------------------------------- code helpers
\* A loop that admits one iteration more than the cap.
LoopGuardOffByOne(it) == it <= max_iterations

\* while iteration < max_iterations (line 2434)
LoopGuard(it) == it < max_iterations

\* A loop that never looks at the frozen set.
NeverFrozen(fz, tool_name) == FALSE

\* tool_name in self._frozen_tools (line 2475)
IsFrozen(fz, tool_name) == tool_name \in fz

\* A freeze that forgets the tools frozen before.
FreezeOnly(fz, tool_name) == {tool_name}

\* self._frozen_tools.add(tool_name) (lines 2660-2661, 2891-2892)
FreezeTool(fz, tool_name) == fz \cup {tool_name}

\* A loop without the splice: every step goes to execute_tool.
NeverSpliced(tool_name, args) == FALSE

\* line 2612
IsDynamicSequence(tool_name, args) ==
    /\ tool_name = "dynamic_sequence"
    /\ "sequence" \in DOMAIN args

\* execute_tool on a name that is no key of tool_functions raises KeyError,
\* which becomes {"error": ...}: the step can only fail (lines 1203, 1234-1236)
RegisteredTools == {"read_file", "click_at_coordinates"}
\* The tools that work on the desktop: with a desktop at hand (env.gui) they
\* return their result, without one they return an error.
DesktopTools ==
    {"take_desktop_screenshot", "analyze_screen_region", "analyze_image",
     "locate_app_icon_on_desktop", "focus_window", "wait_for_seconds",
     "type_text", "press_key"}
PossibleOutcomes(tool_name) ==
    IF tool_name \in RegisteredTools THEN {"success", "failed"}
    ELSE IF env.gui /\ tool_name \in DesktopTools THEN {"success"}
    ELSE {"failed"}

\* ------------------------------------------------------ text operations
\* str.lower() on the Latin letters (the texts of the model are ASCII)
LowerChar(c) ==
    CASE c = "A" -> "a" [] c = "B" -> "b" [] c = "C" -> "c" [] c = "D" -> "d"
      [] c = "E" -> "e" [] c = "F" -> "f" [] c = "G" -> "g" [] c = "H" -> "h"
      [] c = "I" -> "i" [] c = "J" -> "j" [] c = "K" -> "k" [] c = "L" -> "l"
      [] c = "M" -> "m" [] c = "N" -> "n" [] c = "O" -> "o" [] c = "P" -> "p"
      [] c = "Q" -> "q" [] c = "R" -> "r" [] c = "S" -> "s" [] c = "T" -> "t"
      [] c = "U" -> "u" [] c = "V" -> "v" [] c = "W" -> "w" [] c = "X" -> "x"
      [] c = "Y" -> "y" [] c = "Z" -> "z" [] OTHER -> c
RECURSIVE LowerFrom(_, _)
LowerFrom(s, i) ==
    IF i > Len(s) THEN ""
    ELSE LowerChar(SubSeq(s, i, i)) \o LowerFrom(s, i + 1)
Lower(s) == LowerFrom(s, 1)
\* `marker in text`
Contains(text, marker) ==
    \E i \in 1..(Len(text) - Len(marker) + 1) :
        SubSeq(text, i, i + Len(marker) - 1) = marker
\* any(marker in text for marker in markers)
ContainsAny(text, markers) == \E marker \in markers : Contains(text, marker)

\* _handle_repeated_failure (lines 376-593) for a failed step record and the
\* answer `llm` of _create_dynamic_solution.  The record execute_plan passes
\* is step_result, which carries no "args".
\* the keyword and tool lists of lines 528 and 564-566
LaunchKeywords == {"open", "telegram", "application", "start", "exe", "launch"}
GuiTools ==
    {"click_at_coordinates", "click_element", "press_key", "press_hotkey",
     "type_text", "analyze_screen_region", "analyze_image"}
FileTools ==
    {"read_file", "write_file", "write_csv_file", "file_processing", "file_read"}
BrowserTools ==
    {"initialize_browser", "navigate_to_url", "fill_form", "click_element",
     "execute_javascript"}
\* _sequence_response (lines 386-395)
_sequence_response(sequence) ==
    [description |-> "dynamic_sequence", tool |-> "dynamic_sequence",
     args |-> [sequence |-> sequence]]
\* _build_file_sequence (lines 433-482)
FileFallback(file_path) ==
    _sequence_response(
        << [description |-> "re-read the file for diagnostics",
            tool |-> "read_file", args |-> [filepath |-> file_path]],
           [description |-> "create the parser script",
            tool |-> "create_python_script", args |-> [filename |-> "file_parser"]],
           [description |-> "run the generated script",
            tool |-> "execute_python_script", args |-> [script_path |-> "file_parser"]],
           [description |-> "check the parse results",
            tool |-> "read_file", args |-> [filepath |-> "parsed"]] >>)
\* _build_gui_sequence (lines 397-431)
GuiFallback ==
    _sequence_response(
        << [description |-> "take a fresh desktop screenshot",
            tool |-> "take_desktop_screenshot", args |-> [filename |-> "gui_fallback"]],
           [description |-> "analyze the screenshot for coordinates",
            tool |-> "analyze_image", args |-> [image_path |-> "gui_fallback"]],
           [description |-> "click the coordinates found",
            tool |-> "click_at_coordinates", args |-> [x |-> 0, y |-> 0]],
           [description |-> "screenshot to check the result",
            tool |-> "take_desktop_screenshot", args |-> [filename |-> "verify"]] >>)
\* _build_browser_sequence (lines 484-522); None: no url, NoArgs: no form
\* arguments
NoArgs == [none |-> TRUE]
BrowserFallback(url, form_args) ==
    _sequence_response(
        << [description |-> "initialize the browser in visible mode",
            tool |-> "initialize_browser", args |-> [use_existing |-> TRUE]] >>
        \o (IF url # None
            THEN << [description |-> "go to the url", tool |-> "navigate_to_url",
                     args |-> [url |-> url]] >>
            ELSE <<>>)
        \o (IF form_args # NoArgs
            THEN << [description |-> "fill the form again", tool |-> "fill_form",
                     args |-> form_args] >>
            ELSE <<>>)
        \o << [description |-> "short pause for loading",
               tool |-> "wait_for_seconds", args |-> [seconds |-> 2]],
              [description |-> "screenshot to check the web interface",
               tool |-> "take_desktop_screenshot",
               args |-> [filename |-> "web_verify"]] >>)
\* lines 545-561: find the executable, then start it
LaunchFallback(app_arg) ==
    _sequence_response(
        << [description |-> "find the path of the executable",
            tool |-> "find_executable", args |-> [app_name |-> app_arg]],
           [description |-> "start the application by the path found",
            tool |-> "open_application_advanced",
            args |-> [app_name |-> app_arg]] >>)

\* (failed_step.get("args") or {}).get(key), None when absent or false
FailedStepArg(failed_step, key) ==
    IF "args" \in DOMAIN failed_step /\ key \in DOMAIN failed_step.args
       /\ failed_step.args[key] # ""
    THEN failed_step.args[key] ELSE None
FirstOf(values) ==
    IF \E i \in 1..Len(values) : values[i] # None
    THEN values[CHOOSE i \in 1..Len(values) :
                    /\ values[i] # None
                    /\ \A j \in 1..(i - 1) : values[j] = None]
    ELSE None
\* line 574
FailedStepFilePath(failed_step) ==
    FirstOf(<<FailedStepArg(failed_step, "filepath"),
              FailedStepArg(failed_step, "path")>>)
\* re.search(r'"([^"]+)"', text) (line 539): the first run of characters
\* between two double quotes, None when there is none
QuoteChar == "\""
QuotedRuns(text) ==
    {<<i, j>> \in (1..Len(text)) \X (1..Len(text)) :
        /\ j > i + 1
        /\ SubSeq(text, i, i) = QuoteChar
        /\ SubSeq(text, j, j) = QuoteChar
        /\ \A k \in (i + 1)..(j - 1) : SubSeq(text, k, k) # QuoteChar}
QuotedText(text) ==
    IF QuotedRuns(text) = {} THEN None
    ELSE LET run == CHOOSE r \in QuotedRuns(text) :
                        \A q \in QuotedRuns(text) : r[1] <= q[1]
         IN SubSeq(text, run[1] + 1, run[2] - 1)
\* lines 529-543
AppArg(failed_step) ==
    FirstOf(<<FailedStepArg(failed_step, "app_name"),
              FailedStepArg(failed_step, "application"),
              FailedStepArg(failed_step, "app"),
              QuotedText(failed_step.description)>>)
\* failed_step.get("tool") or failed_step.get("name", "") (line 379)
FailedStepTool(failed_step) ==
    IF failed_step.tool # None /\ failed_step.tool # "" THEN failed_step.tool
    ELSE IF "name" \in DOMAIN failed_step THEN failed_step.name
    ELSE ""
\* "no step": the None a helper returns instead of a step
NoStep == [description |-> "", tool |-> None, args |-> [none |-> TRUE]]
\* no tool_call: nothing was passed to execute_tool
NoCall == [name |-> None, arguments |-> [none |-> TRUE]]
\* One branch of the cascade: whether it applies to the failed step, and
\* the step it returns (lines 528-561, 568-572, 574-579, 581-587)
BranchApplies(branch, failed_step) ==
    LET low_tool == Lower(FailedStepTool(failed_step))
    IN CASE branch = "launch" ->
                /\ ContainsAny(low_tool, LaunchKeywords)
                /\ AppArg(failed_step) # None
         [] branch = "gui" -> ContainsAny(low_tool, GuiTools)
         [] branch = "file" ->
                /\ ContainsAny(low_tool, FileTools)
                /\ FailedStepFilePath(failed_step) # None
         [] branch = "browser" -> ContainsAny(low_tool, BrowserTools)
BranchStep(branch, failed_step) ==
    CASE branch = "launch" -> LaunchFallback(AppArg(failed_step))
      [] branch = "gui" -> GuiFallback
      [] branch = "file" -> FileFallback(FailedStepFilePath(failed_step))
      [] branch = "browser" ->
             BrowserFallback(
                 FailedStepArg(failed_step, "url"),
                 IF FailedStepTool(failed_step) = "fill_form"
                    /\ "args" \in DOMAIN failed_step
                 THEN failed_step.args ELSE NoArgs)
\* the order of the if statements of lines 528-591
BrowserBeforeGui == <<"launch", "browser", "gui", "file">>
CascadeOrder == <<"launch", "gui", "file", "browser">>
RECURSIVE FirstApplicable(_, _, _)
FirstApplicable(order, failed_step, llm) ==
    IF order = <<>> THEN llm
    ELSE IF BranchApplies(Head(order), failed_step)
    THEN BranchStep(Head(order), failed_step)
    ELSE FirstApplicable(Tail(order), failed_step, llm)
_handle_repeated_failure(fa, failed_step, llm) ==
    IF _count_failed_attempts(fa, failed_step.description,
                              FailedStepTool(failed_step))
       >= RepeatedFailureThreshold
    THEN FirstApplicable(CascadeOrder, failed_step, llm)
    ELSE NoStep

\* lines 2910-2912: the fix is installed when it differs from the failed
\* record in tool, description or args; the record has no "args" (None)
FixDiffers(fixed_step, sr) ==
    \/ fixed_step.tool # sr.tool
    \/ fixed_step.description # sr.description
    \/ "args" \in DOMAIN fixed_step

\* The texts the specifications feed to the completion heuristic: the task
\* texts, and the tool names and descriptions of the history records.
DetectTasks ==
    {"Send a message to Bob", "find Bob and write hello", "open Calculator"}
DetectSteps ==
    {<<"type_text", "Type the message">>,
     <<"press_key", "press Enter to send">>,
     <<"take_desktop_screenshot", "final screenshot">>,
     <<"take_desktop_screenshot", "screenshot of the search result">>,
     <<"click_at_coordinates", "click the contact">>,
     <<"open_application", "open Telegram">>}
\* the tool names and the descriptions of the steps of the plans
StepTexts ==
    {"None", "think", "dynamic_sequence", "read_file", "click_at_coordinates",
     "take_desktop_screenshot", "analyze_screen_region", "analyze_image",
     "locate_app_icon_on_desktop", "focus_window", "wait_for_seconds",
     "type_text", "press_key", "open_application",
     "read the notes", "read the notes again", "read the notes once more",
     "click the button", "run the fallback",
     "take a screenshot of the desktop", "find the input field",
     "locate the icon", "click the coordinates found", "click the icon",
     "focus and maximize the application window",
     "screenshot of the opened chat",
     "analyze the interface for the input field",
     "click the input field (960, 1000)",
     "pause to activate the input field", "type the message: hello",
     "send the message (Enter)", "wait for the message to be sent",
     "final screenshot - confirmation of the sending"}
KnownTexts ==
    DetectTasks
    \cup {"send a message to Bob", "execute_system_command",
          "start the application"}
    \cup {"Type the message", "press Enter to send", "final screenshot",
          "screenshot of the search result", "click the contact",
          "open Telegram"}
    \cup StepTexts
\* Lower on the known texts, computed once
LowerTable == [text \in KnownTexts |-> Lower(text)]
ToLower(text) ==
    IF text \in KnownTexts THEN LowerTable[text] ELSE Lower(text)
AllMarkers ==
    {"message", "write", "send", "search", "find", "enter", "final",
     "message_sent", "contact", "result"}
\* the markers each known text contains once lowered, computed once
MarkerTable ==
    [text \in KnownTexts |-> {mk \in AllMarkers : Contains(Lower(text), mk)}]
\* any(marker in text.lower() for marker in markers)
LowerContainsAny(text, markers) ==
    IF text \in KnownTexts /\ markers \subseteq AllMarkers
    THEN MarkerTable[text] \cap markers # {}
    ELSE ContainsAny(Lower(text), markers)

\* _detect_task_completion (lines 258-295).  The marker lists carry the
\* Latin markers of the source; its Cyrillic markers match no text of the model.
\* _has (lines 264-277)
HasWithAnyStatus(history, tool_name, markers) ==
    \E i \in 1..Len(history) :
        /\ ToLower(history[i].tool) = ToLower(tool_name)
        /\ LowerContainsAny(history[i].description, markers)

HasSuccessful(history, tool_name, markers) ==
    \E i \in 1..Len(history) :
        /\ history[i].status = "success"
        /\ ToLower(history[i].tool) = ToLower(tool_name)
        /\ LowerContainsAny(history[i].description, markers)
MessageWords == {"message", "write", "send"}
SearchWords == {"search", "find"}
TypeMarked == {"message"}
SendMarked == {"enter", "send"}
FinalShotMarked == {"final", "message_sent"}
ContactClickMarked == {"contact", "result"}
SearchShotMarked == {"search"}
_detect_task_completion(task, history) ==
    /\ task # ""
    /\ Len(history) > 0
    /\ LET message_task == LowerContainsAny(task, MessageWords)
           search_task == LowerContainsAny(task, SearchWords)
       IN \/ /\ HasSuccessful(history, "type_text", TypeMarked)
             /\ HasSuccessful(history, "press_key", SendMarked)
             /\ HasSuccessful(history, "take_desktop_screenshot", FinalShotMarked)
             /\ message_task
          \/ /\ HasSuccessful(history, "click_at_coordinates", ContactClickMarked)
             /\ HasSuccessful(history, "take_desktop_screenshot", SearchShotMarked)
             /\ search_task
             /\ (~message_task
                 \/ HasSuccessful(history, "take_desktop_screenshot",
                                  FinalShotMarked))

\* the task text of the runs of Spec and SpecBudget
TheTask == "send a message to Bob"

\* _build_gui_automation_flow(app_name, task, screenshot_path)
_build_gui_automation_flow(task) ==
    <<FlowFocus>>
    \o (IF LowerContainsAny(task, FlowMessageWords) THEN FlowMessageSteps
        ELSE <<>>)

\* step_result as execute_plan builds it (line 2445), then status (line 2646)
StepRecord(step, status) ==
    [description |-> step.description, tool |-> step.tool, status |-> status,
     verification |-> None, verification_attempts |-> <<>>]


\* ------------------------------------------- the collaborators' answers
\* check_task_completion: (True, None) | (False, step) | (False, None)
OracleDone == [kind |-> "done", step |-> NoStep]
OracleNone == [kind |-> "none", step |-> NoStep]
OracleNext(s) == [kind |-> "next", step |-> s]
OracleAnswers ==
    {OracleDone, OracleNone}
    \cup (IF env.replans < MaxReplans THEN {OracleNext(s) : s \in ReplanSteps}
          ELSE {})
\* _fix_failed_step, _ask_model_next_step, _create_dynamic_solution: a step or None
StepAnswers ==
    {NoStep} \cup (IF env.replans < MaxReplans THEN ReplanSteps ELSE {})

\* The answers to error-recovery requests: one level per nested
\* execute_plan, [plan, failAt]: the plan the model returns and the position
\* of the step that fails in it (0: none).  No level: no template or no plan.
RecoveryLevels ==
    UNION {{[plan |-> p, failAt |-> k] : k \in 0..Len(p)} : p \in RecoveryPlans}
RECURSIVE RecoveryChainsUpTo(_)
RecoveryChainsUpTo(n) ==
    IF n = 0 THEN {<<>>}
    ELSE LET shorter == RecoveryChainsUpTo(n - 1)
         IN shorter \cup {<<l>> \o c : l \in RecoveryLevels,
                                       c \in {d \in shorter : Len(d) = n - 1}}
RecoveryChains == RecoveryChainsUpTo(MaxRecoveryDepth)

\* ------------------------------------ execute_plan(..., iterative=False)
\* The error-recovery call of line 2929: stop_on_failure=True, one pass over
\* the plan.  st = [records, fa, dispatched, depth]; fz is the frozen set,
\* which a non-iterative call never changes; depth counts the execute_plan
\* calls of line 2929 on the stack.  chain[1] is the level being executed.
RECURSIVE execute_plan_once(_, _, _, _, _, _)
execute_plan_once(chain, i, st, fz, cfg, vin) ==
    LET plan == chain[1].plan
    IN IF i > Len(plan) THEN st
       ELSE
       LET step == plan[i]
           tool == step.tool
           args == StepArgs(step)
       IN IF IsFrozen(fz, tool)
          THEN execute_plan_once(chain, i + 1,
                   [st EXCEPT !.records = Append(@, StepRecord(step, "skipped"))],
                   fz, cfg, vin)
          ELSE IF tool = None
          THEN [st EXCEPT !.records = Append(@, StepRecord(step, "failed"))]
          ELSE IF IsDynamicSequence(tool, args) THEN st
          ELSE IF tool \in RegisteredTools /\ i # chain[1].failAt
          THEN LET sr == _post_verify_ui_step(tool, args,
                              StepRecord(step, "success"), cfg, vin)
                   st1 == [records |-> Append(st.records, sr),
                           fa |-> _reset_failed_attempts(st.fa, step.description, tool),
                           dispatched |-> Append(st.dispatched, tool),
                           depth |-> st.depth]
               IN IF _detect_task_completion(TheTask, st1.records) THEN st1
                  ELSE execute_plan_once(chain, i + 1, st1, fz, cfg, vin)
          ELSE LET st1 == [records |-> Append(st.records, StepRecord(step, "failed")),
                           fa |-> _reset_failed_attempts(st.fa, step.description, tool),
                           dispatched |-> Append(st.dispatched, tool),
                           depth |-> st.depth]
               IN IF _detect_task_completion(TheTask, st1.records) THEN st1
                  ELSE IF Len(chain) > 1
                  THEN LET inner == execute_plan_once(Tail(chain), 1,
                                        [st1 EXCEPT !.records = <<>>,
                                                    !.depth = @ + 1],
                                        fz, cfg, vin)
                       IN [inner EXCEPT !.records = st1.records \o @]
                  ELSE st1

\* lines 2921-2934 for the failed step of the calling loop
ErrorRecovery(chain, fa, fz, cfg, vin) ==
    IF chain = <<>>
    THEN [records |-> <<>>, fa |-> fa, dispatched |-> <<>>, depth |-> 0]
    ELSE execute_plan_once(chain, 1,
             [records |-> <<>>, fa |-> fa, dispatched |-> <<>>, depth |-> 1],
             fz, cfg, vin)


\* ------------------------------------------------------- the loop's state
\* env: the runs started, the plan elements taken up (and whether cap
\* bounds them), the replacement steps and recovery plans handed out in this
\* run, and three history variables: the tools the stall
\* detector's condition held for in this run (stalled), the signature of the
\* loop's last dispatch if it failed (lastFail), and per (description, tool)
\* the loop's consecutive failed outcomes since the last success (consec).
\* entry: what run_task returned without executing anything (lines 3518-3521)
NoEntry == [plan |-> <<>>, execution |-> [error |-> ""]]
NoPlanEntryWithoutError == NoEntry
NoPlanEntry == [plan |-> <<>>, execution |-> [error |-> "no plan was created, or it is empty"]]

InitEnv ==
    [run |-> 0, steps |-> 0, bounded |-> TRUE, replans |-> 0, stalled |-> {},
     lastFail |-> <<>>, consec |-> EmptyDict, entry |-> NoEntry, gui |-> FALSE,
     cap |-> MaxSteps]
\* obs: what the last action did: the plan element it took up, the tool it
\* passed to execute_tool (None: nothing), the tools the recovery sub-plans
\* dispatched, whether the stall detector's branch ran, the frozen set the
\* action started from, whether the dispatch failed with the signature of the
\* loop's previous dispatch that failed too (repeated), and the sequence a splice installed that no plan
\* element has been taken up after; answer is what check_task_completion
\* returned to the skip of a frozen step (OracleNone: not asked, or no step);
\* asked: check_task_completion was called; call: the tool_call of
\* line 2609; appended: the status the record had at line 2678;
\* analyzed_before, icon_before: the coordinates the action started from;
\* kept: the handling of a failed step installed no replacement plan;
\* fixed: it installed the answer of _fix_failed_step; last_resort: the
\* step _ask_model_next_step returned to line 2959 (NoStep: not asked, or
\* nothing returned); gui_before: gui_automation_active when the action
\* started; verify_dispatched: the tools _post_verify_ui_step passed to
\* execute_tool; ran_out: the for loop ended at the last element of the
\* plan, with neither break nor return; sub_depth: the largest number of
\* execute_plan calls of line 2929 that were on the stack at once;
\* step_after: the dict `step` of line 2444 as the action left it (lines
\* 2605-2606 and 2763-2777 write into it and into its args).
NoObs ==
    [act |-> "none", step |-> NoStep, dispatched |-> None,
     sub_dispatched |-> <<>>, stall |-> FALSE, repeated |-> FALSE,
     frozen_before |-> {}, spliced |-> <<>>, after_splice |-> FALSE,
     answer |-> OracleNone, asked |-> FALSE, call |-> NoCall,
     appended |-> None, analyzed_before |-> NoCoords,
     icon_before |-> NoCoords, kept |-> FALSE, fixed |-> FALSE,
     last_resort |-> NoStep, gui_before |-> FALSE, verify_dispatched |-> <<>>,
     ran_out |-> FALSE, sub_depth |-> 0, step_after |-> NoStep]
StepActs == {"skip", "raise", "splice", "success", "failure", "remarked"}
Obs(act, step, dispatched) ==
    [NoObs EXCEPT !.act = act, !.step = step, !.dispatched = dispatched,
                  !.step_after = step,
                  !.frozen_before = frozen_tools,
                  !.analyzed_before = last_analyzed_coords,
                  !.icon_before = last_icon_coords,
                  !.gui_before = gui_automation_active,
                  !.after_splice = (act \in StepActs /\ obs.spliced # <<>>)]

Init ==
    /\ InitAgentDefaults
    /\ InitNoLoop
    /\ pc = "idle"
    /\ env = InitEnv
    /\ obs = NoObs
    /\ step_result = NoStepResult

\* the while guard and the for loop's start (lines 2434-2444) for a plan
EnterLoop(plan, it) ==
    IF LoopGuard(it)
    THEN /\ iteration' = it + 1
         /\ idx' = 1
         /\ pc' = IF plan = <<>> THEN "tail" ELSE "for"
    ELSE /\ iteration' = it
         /\ idx' = idx
         /\ pc' = "done"

\* run_task (lines 3500-3530) with a non-empty plan, up to the first plan
\* element of execute_plan (lines 2419-2444)
RunTask(plan, sof) ==
    /\ pc \in {"idle", "done"}
    /\ env.run < MaxRuns
    /\ current_plan' = plan
    /\ executed' = <<>>
    /\ prev_signature' = NoSignature
    /\ repeat_fail_count' = 0
    /\ iterative' = TRUE
    /\ stop_on_failure' = sof
    /\ EnterLoop(plan, 0)
    /\ env' = [InitEnv EXCEPT !.run = env.run + 1, !.steps = env.steps, !.cap = env.cap,
                              !.gui = env.gui]
    /\ obs' = Obs("run_task", NoStep, None)
    /\ step_result' = NoStepResult
    /\ last_icon_coords' = NoCoords
    /\ last_analyzed_coords' = NoCoords
    /\ gui_automation_active' = FALSE
    /\ UNCHANGED <<failed_attempts, frozen_tools, guiVars>>

\* run_task when create_task_plan returns no plan (lines 3518-3521)
RunTaskNoPlan ==
    /\ pc \in {"idle", "done"}
    /\ env.run < MaxRuns
    /\ pc' = "idle"
    /\ env' = [InitEnv EXCEPT !.run = env.run + 1, !.steps = env.steps, !.cap = env.cap,
                              !.entry = NoPlanEntry, !.gui = env.gui]
    /\ obs' = Obs("run_task_no_plan", NoStep, None)
    /\ UNCHANGED <<failed_attempts, frozen_tools, guiVars, coordVars, iteration,
                   current_plan, idx, executed, prev_signature,
                   repeat_fail_count, iterative, stop_on_failure, step_result>>

\* how a plan element's handling leaves the for loop
LeaveStep(mode, plan) ==
    /\ current_plan' = plan
    /\ idx' = IF mode = "continue" THEN idx + 1 ELSE idx
    /\ pc' = IF mode = "return" THEN "done"
             ELSE IF mode = "break" THEN "tail"
             ELSE IF idx + 1 > Len(current_plan) THEN "tail" ELSE "for"
    /\ UNCHANGED <<iteration, iterative, stop_on_failure, guiVars>>

\* the oracle's answer applied as in lines 2481-2489 and 2813-2823
AfterOracleKeepingPlan(oracle) ==
    IF iterative /\ oracle.kind = "done" THEN LeaveStep("return", current_plan)
    ELSE LeaveStep("continue", current_plan)

\* the same without the test of the mode
AfterOracleInAnyMode(oracle) ==
    IF oracle.kind = "done" THEN LeaveStep("return", current_plan)
    ELSE IF oracle.kind = "next" THEN LeaveStep("break", <<oracle.step>>)
    ELSE LeaveStep("continue", current_plan)

AfterOracle(oracle) ==
    IF ~iterative THEN LeaveStep("continue", current_plan)
    ELSE IF oracle.kind = "done" THEN LeaveStep("return", current_plan)
    ELSE IF oracle.kind = "next" THEN LeaveStep("break", <<oracle.step>>)
    ELSE LeaveStep("continue", current_plan)

\* lines 2814-2823, `plan` being the current plan with the arguments the
\* handling has written into its element
KeepThePlan(oracle, plan) ==
    IF oracle.kind = "done" THEN LeaveStep("return", current_plan)
    ELSE LeaveStep("continue", plan)
AfterOracleOn(oracle, plan) ==
    IF oracle.kind = "done" THEN LeaveStep("return", current_plan)
    ELSE IF oracle.kind = "next" THEN LeaveStep("break", <<oracle.step>>)
    ELSE LeaveStep("continue", plan)

Replanned(n) == [env EXCEPT !.steps = @ + 1, !.replans = @ + n]
StepsLeft == env.bounded => env.steps < env.cap


\* ------------------------------------------------ one plan element each
\* lines 2475-2489: the tool of the plan element is frozen
StepSkipFrozen(oracle) ==
    /\ pc = "for"
    /\ StepsLeft
    /\ LET step == current_plan[idx]
           sr == StepRecord(step, "skipped")
       IN /\ IsFrozen(frozen_tools, step.tool)
          /\ executed' = Append(executed, sr)
          /\ step_result' = sr
          /\ AfterOracle(oracle)
          /\ env' = Replanned(IF iterative /\ oracle.kind = "next" THEN 1 ELSE 0)
          /\ obs' = [Obs("skip", step, None) EXCEPT
                         !.ran_out = (pc' = "tail" /\ idx' = idx + 1),
                         !.answer = IF iterative THEN oracle ELSE OracleNone,
                         !.asked = iterative, !.appended = "skipped"]
    /\ UNCHANGED <<failed_attempts, frozen_tools, prev_signature,
                   repeat_fail_count, coordVars>>

\* line 2445: step.get(...) on a plan element that is no dict
IsObject(step) == "text" \notin DOMAIN step

\* lines 2596-2597 and 2935-2941: the plan element names no tool
StepRaises ==
    /\ pc = "for"
    /\ StepsLeft
    /\ LET step == current_plan[idx]
           sr == StepRecord(step, "failed")
       IN /\ IsObject(step)
          /\ step.tool = None
          /\ ~IsFrozen(frozen_tools, step.tool)
          /\ executed' = Append(executed, sr)
          /\ step_result' = sr
          /\ LeaveStep(IF stop_on_failure THEN "break" ELSE "continue",
                       current_plan)
          /\ env' = Replanned(0)
          /\ obs' = [Obs("raise", step, None) EXCEPT
                         !.ran_out = (pc' = "tail" /\ idx' = idx + 1),
                         !.appended = "failed"]
    /\ UNCHANGED <<failed_attempts, frozen_tools, prev_signature,
                   repeat_fail_count, coordVars>>

\* lines 2612-2618: a dynamic_sequence step that carries a list
StepSplice ==
    /\ pc = "for"
    /\ StepsLeft
    /\ LET step == current_plan[idx]
           args == StepArgs(step)
       IN /\ step.tool # None
          /\ ~IsFrozen(frozen_tools, step.tool)
          /\ IsDynamicSequence(step.tool, args)
          /\ LeaveStep("break", args.sequence)
          /\ env' = Replanned(0)
          /\ obs' = [Obs("splice", step, None) EXCEPT !.spliced = args.sequence]
    /\ UNCHANGED <<failed_attempts, frozen_tools, prev_signature,
                   repeat_fail_count, executed, step_result, coordVars>>

\* the vision collaborator in the loop never confirms a click (SpecVerify
\* covers its other answers)
LoopVisionInputs == {QuietAnswers}

\* ------------------------------------ what the dispatch of a step returns
\* The parts of a successful result the loop reads: file_path of a
\* screenshot (line 2784), x and y of a located icon (lines 2687-2694), and
\* the answer of an analysis with the first of its coordinates (line 2711).
COORDINATE_PROMPT_MARKER == "[[COORDINATE_RESPONSE_JSON]]"
NoResult ==
    [file_path |-> None, icon |-> NoCoords, answer |-> AnsEmptyText,
     first |-> NoCoords]
IconCoords == {<<50, 60>>}
AnalysisCoords == {<<300, 400>>}
ToolResults(tool_name) ==
    CASE tool_name = "take_desktop_screenshot" ->
            {NoResult, [NoResult EXCEPT !.file_path = "shot.png"]}
      [] tool_name = "locate_app_icon_on_desktop" ->
            {[NoResult EXCEPT !.icon = c] : c \in IconCoords}
      [] tool_name \in AnalysisTools ->
            {[NoResult EXCEPT !.answer = AnsFailEmpty]}
            \cup {[NoResult EXCEPT !.answer = AnsJsonSuccess, !.first = c] :
                     c \in AnalysisCoords}
      [] OTHER -> {NoResult}

\* _format_coordinate_question (lines 222-233)
_format_coordinate_question(question) ==
    IF Contains(question, COORDINATE_PROMPT_MARKER) THEN question
    ELSE question \o " " \o COORDINATE_PROMPT_MARKER
\* args as line 2609 puts them into the tool call: step.get("args") of line
\* 2454, the question of an analysis step rewritten by lines 2600-2606
PreparedArgs(step) ==
    LET args == StepArgs(step)
    IN IF step.tool \in AnalysisTools /\ "question" \in DOMAIN args
       THEN [args EXCEPT !.question = _format_coordinate_question(@)]
       ELSE args
\* the plan element after line 2606 (step["args"] = args)
PreparedStep(step) ==
    IF step.tool \in AnalysisTools /\ "question" \in DOMAIN StepArgs(step)
    THEN [step EXCEPT !.args = PreparedArgs(step)]
    ELSE step
\* tool_call of line 2609
ToolCall(step) == [name |-> step.tool, arguments |-> PreparedArgs(step)]

\* line 2700
RequiresCoords(step) ==
    /\ "args" \in DOMAIN step
    /\ "question" \in DOMAIN step.args
    /\ Contains(step.args.question, COORDINATE_PROMPT_MARKER)
\* lines 2685-2696
IconAfter(tool_name, res, icon) ==
    IF tool_name = "locate_app_icon_on_desktop" THEN res.icon ELSE icon
\* lines 2699-2714
AnalysisFound(tool_name, res) ==
    /\ tool_name \in AnalysisTools
    /\ _extract_coordinate_analysis(res.answer).ok
    /\ _extract_coordinate_analysis(res.answer).ncoords > 0
AnalyzedAfter(tool_name, res, analyzed) ==
    IF AnalysisFound(tool_name, res) THEN res.first ELSE analyzed
\* lines 2715-2719: the record, appended with status success, becomes failed
NeverRemarked(step, res) == FALSE
AnalysisRemarked(step, res) ==
    /\ step.tool \in AnalysisTools
    /\ ~AnalysisFound(step.tool, res)
    /\ RequiresCoords(PreparedStep(step))

\* lines 2763-2777 for the plan element `step`: [step, analyzed]
Usable(coords) == coords # NoCoords /\ coords[1] > 0 /\ coords[2] > 0
SetDefault(args, key, value) ==
    IF key \in DOMAIN args THEN args
    ELSE [k \in DOMAIN args \cup {key} |-> IF k = key THEN value ELSE args[k]]
SetItem(args, key, value) ==
    [k \in DOMAIN args \cup {key} |-> IF k = key THEN value ELSE args[k]]
SubstituteCoordinates(step, analyzed, icon) ==
    IF step.tool # "click_at_coordinates"
    THEN [step |-> step, analyzed |-> analyzed]
    ELSE IF Usable(analyzed)
    THEN [step |-> IF "args" \in DOMAIN step
                   THEN [step EXCEPT !.args = SetItem(SetItem(@, "x", analyzed[1]),
                                                      "y", analyzed[2])]
                   ELSE step,
          analyzed |-> NoCoords]
    ELSE IF Usable(icon)
    THEN [step |-> IF "args" \in DOMAIN step
                   THEN [step EXCEPT !.args = SetDefault(SetDefault(@, "x", icon[1]),
                                                         "y", icon[2])]
                   ELSE step,
          analyzed |-> analyzed]
    ELSE [step |-> step, analyzed |-> analyzed]

\* lines 2780-2830: whether check_task_completion is called after a
\* successful step; completed: line 2680 returned; flow: the loop switches
\* to the GUI flow (line 2808); shot: the step is take_desktop_screenshot
OracleConsultedAlways(completed, flow, shot) == iterative /\ ~completed
OracleConsulted(completed, flow, shot) ==
    /\ iterative
    /\ ~completed
    /\ ~flow
    /\ (gui_automation_active => shot)

\* lines 2621-2830 for a dispatch classified success; res is what the loop
\* reads of the result.  asked: check_task_completion is called.
StepSucceeds(vin, oracle, res) ==
    /\ pc = "for"
    /\ StepsLeft
    /\ LET step == current_plan[idx]
           tool == step.tool
           args == PreparedArgs(step)
           sr == _post_verify_ui_step(tool, args, StepRecord(step, "success"),
                                      GuiConfig, vin)
           ex1 == Append(executed, sr)
           completed == _detect_task_completion(TheTask, ex1)
           icon1 == IconAfter(tool, res, last_icon_coords)
           sub == SubstituteCoordinates(
                      PreparedStep(step),
                      AnalyzedAfter(tool, res, last_analyzed_coords), icon1)
           plan1 == [current_plan EXCEPT ![idx] = sub.step]
           shot == tool = "take_desktop_screenshot"
           flow == /\ iterative
                   /\ shot
                   /\ ~gui_automation_active
                   /\ res.file_path # None
           asked == OracleConsulted(completed, flow, shot)
           next == asked /\ ~gui_automation_active /\ oracle.kind = "next"
       IN /\ tool # None
          /\ ~IsFrozen(frozen_tools, tool)
          /\ ~IsDynamicSequence(tool, args)
          /\ "success" \in PossibleOutcomes(tool)
          /\ ~AnalysisRemarked(step, res)
          /\ prev_signature' = NoSignature
          /\ repeat_fail_count' = 0
          /\ failed_attempts' =
                 _reset_failed_attempts(failed_attempts, step.description, tool)
          /\ executed' = ex1
          /\ step_result' = sr
          /\ IF completed
             THEN LeaveStep("return", current_plan) /\ UNCHANGED coordVars
             ELSE /\ last_icon_coords' = icon1
                  /\ last_analyzed_coords' = sub.analyzed
                  /\ gui_automation_active' = (gui_automation_active \/ flow)
                  /\ IF flow
                     THEN LeaveStep("break", _build_gui_automation_flow(TheTask))
                     ELSE IF ~asked THEN LeaveStep("continue", plan1)
                     ELSE IF gui_automation_active
                     THEN KeepThePlan(oracle, plan1)
                     ELSE AfterOracleOn(oracle, plan1)
          /\ env' = [Replanned(IF next THEN 1 ELSE 0)
                        EXCEPT !.lastFail = <<>>,
                               !.consec = DictSet(@, <<step.description, tool>>, 0)]
          /\ obs' = [Obs("success", step, tool)
                        EXCEPT !.ran_out = (pc' = "tail" /\ idx' = idx + 1),
                               !.step_after = IF completed
                                              THEN PreparedStep(step)
                                              ELSE sub.step,
                               !.asked = asked, !.call = ToolCall(step),
                               !.answer = IF asked THEN oracle ELSE OracleNone,
                               !.verify_dispatched =
                                   VerifyDispatched(tool, args,
                                       StepRecord(step, "success"),
                                       GuiConfig, vin),
                               !.appended = "success"]
    /\ UNCHANGED frozen_tools


\* lines 2621-2681 and 2833-2934 for a dispatch classified failed: what the
\* handling leaves behind.  llm, fix and chain are the model's answers to
\* _create_dynamic_solution, _fix_failed_step and the error-recovery request;
\* `used` is the number of those answers the handling acted on.
\* late: the status became failed at line 2717, after the stall detector
\* (lines 2653-2671) had seen a success; kept: the plan is not replaced;
\* subst: the handling passed lines 2763-2777; fixed: the answer of
\* _fix_failed_step became the plan (line 2914).
FailedStepFrom(step, llm, fix, chain, vin, late) ==
    LET tool == step.tool
        sig == IF late THEN NoSignature
               ELSE Signature(tool, PreparedArgs(step))
        rep == IF late THEN 0
               ELSE IF prev_signature = sig THEN repeat_fail_count + 1 ELSE 1
        stall == ~late /\ rep >= StallThreshold /\ iterative
        fz1 == IF stall THEN FreezeTool(frozen_tools, tool) ELSE frozen_tools
        sr == StepRecord(step, "failed")
        dyn1 == IF stall
                THEN _handle_repeated_failure(failed_attempts, sr, llm)
                ELSE NoStep
        fa1 == _reset_failed_attempts(failed_attempts, step.description, tool)
        ex1 == Append(executed, sr)
        fa2 == IF iterative
               THEN _increment_failed_attempts(fa1, step.description, tool)
               ELSE fa1
        cnt == _count_failed_attempts(fa2, step.description, tool)
        fz2 == IF iterative /\ cnt >= FreezeThreshold
               THEN FreezeTool(fz1, tool) ELSE fz1
        dyn2 == IF iterative THEN _handle_repeated_failure(fa2, sr, llm)
                ELSE NoStep
        usefix == /\ iterative
                  /\ cnt < RepeatedFailureThreshold
                  /\ fix # NoStep
                  /\ FixDiffers(fix, sr)
        rec == ErrorRecovery(chain, fa2, fz2, GuiConfig, vin)
        base == [mode |-> "break", plan |-> current_plan, executed |-> ex1,
                 fa |-> fa2, fz |-> fz2, rep |-> rep, sig |-> sig,
                 stall |-> stall, sub |-> <<>>, sr |-> sr, used |-> 1,
                 kept |-> FALSE, subst |-> TRUE, fixed |-> FALSE, depth |-> 0]
    IN IF dyn1 # NoStep
       THEN [base EXCEPT !.plan = <<dyn1>>, !.fa = failed_attempts, !.fz = fz1,
                         !.subst = FALSE]
       ELSE IF _detect_task_completion(TheTask, ex1)
       THEN [base EXCEPT !.mode = "return", !.fa = fa1, !.fz = fz1, !.used = 0,
                         !.subst = FALSE]
       ELSE IF dyn2 # NoStep THEN [base EXCEPT !.plan = <<dyn2>>]
       ELSE IF usefix THEN [base EXCEPT !.plan = <<fix>>, !.fixed = TRUE]
       ELSE IF stop_on_failure
       THEN [base EXCEPT !.executed = ex1 \o rec.records, !.fa = rec.fa,
                         !.sub = rec.dispatched, !.used = Len(chain),
                         !.depth = rec.depth,
                         !.kept = TRUE]
       ELSE [base EXCEPT !.mode = "continue", !.used = 0, !.kept = TRUE]

FailedStep(step, llm, fix, chain, vin) ==
    FailedStepFrom(step, llm, fix, chain, vin, FALSE)

\* the plan and the coordinates a failed step's handling leaves behind
\* (lines 2606 and 2763-2777)
AfterFailure(e) ==
    LET step == current_plan[idx]
        sub == SubstituteCoordinates(PreparedStep(step), last_analyzed_coords,
                                     last_icon_coords)
    IN /\ LeaveStep(e.mode,
                    IF e.kept /\ e.subst
                    THEN [current_plan EXCEPT ![idx] = sub.step]
                    ELSE IF e.kept
                    THEN [current_plan EXCEPT ![idx] = PreparedStep(step)]
                    ELSE e.plan)
       /\ last_analyzed_coords' =
              IF e.subst THEN sub.analyzed ELSE last_analyzed_coords
       /\ UNCHANGED <<last_icon_coords, gui_automation_active>>

\* the dict of the plan element after a failed step's handling: the
\* question rewritten at lines 2605-2606, the coordinates written at lines
\* 2763-2777 when the handling passes them
StepAfterFailure(e) ==
    LET step == current_plan[idx]
        sub == SubstituteCoordinates(PreparedStep(step), last_analyzed_coords,
                                     last_icon_coords)
    IN IF e.subst THEN sub.step ELSE PreparedStep(step)

StepFails(llm, fix, chain, vin) ==
    /\ pc = "for"
    /\ StepsLeft
    /\ \E e \in {FailedStep(current_plan[idx], llm, fix, chain, vin)} :
       LET step == current_plan[idx]
           tool == step.tool
           key == <<step.description, tool>>
       IN /\ tool # None
          /\ ~IsFrozen(frozen_tools, tool)
          /\ ~IsDynamicSequence(tool, StepArgs(step))
          /\ "failed" \in PossibleOutcomes(tool)
          /\ prev_signature' = e.sig
          /\ repeat_fail_count' = e.rep
          /\ failed_attempts' = e.fa
          /\ frozen_tools' = e.fz
          /\ executed' = e.executed
          /\ step_result' = e.sr
          /\ AfterFailure(e)
          /\ env' = [Replanned(e.used)
                        EXCEPT !.lastFail = e.sig,
                               !.stalled = IF env.lastFail = e.sig
                                           THEN @ \cup {tool} ELSE @,
                               !.consec = DictSet(@, key, DictGet(@, key) + 1)]
          /\ obs' = [Obs("failure", step, tool)
                        EXCEPT !.ran_out = (pc' = "tail" /\ idx' = idx + 1),
                               !.sub_dispatched = e.sub, !.sub_depth = e.depth, !.stall = e.stall,
                               !.step_after = StepAfterFailure(e),
                               !.repeated = (env.lastFail = e.sig),
                               !.call = ToolCall(step), !.appended = "failed",
                               !.kept = e.kept, !.fixed = e.fixed]

\* lines 2621-2934 for an analysis that was to return coordinates and
\* returned none: classified success, appended, then marked failed (lines
\* 2715-2719) and handled as a failed step from line 2833 on
StepAnalysisFails(res, fix, chain, vin) ==
    /\ pc = "for"
    /\ StepsLeft
    /\ \E e \in {FailedStepFrom(current_plan[idx], NoStep, fix, chain, vin,
                                 TRUE)} :
       LET step == current_plan[idx]
           tool == step.tool
           key == <<step.description, tool>>
       IN /\ tool # None
          /\ ~IsFrozen(frozen_tools, tool)
          /\ ~IsDynamicSequence(tool, StepArgs(step))
          /\ "success" \in PossibleOutcomes(tool)
          /\ AnalysisRemarked(step, res)
          /\ prev_signature' = e.sig
          /\ repeat_fail_count' = e.rep
          /\ failed_attempts' = e.fa
          /\ frozen_tools' = e.fz
          /\ executed' = e.executed
          /\ step_result' = e.sr
          /\ AfterFailure(e)
          /\ env' = [Replanned(e.used)
                        EXCEPT !.lastFail = e.sig,
                               !.consec = DictSet(@, key, DictGet(@, key) + 1)]
          /\ obs' = [Obs("remarked", step, tool)
                        EXCEPT !.ran_out = (pc' = "tail" /\ idx' = idx + 1),
                               !.sub_dispatched = e.sub, !.sub_depth = e.depth,
                               !.step_after = StepAfterFailure(e),
                               !.call = ToolCall(step), !.appended = "success",
                               !.kept = e.kept, !.fixed = e.fixed]

\* lines 2943-2966 and the while guard of the next iteration
LoopTail(oracle, ask) ==
    /\ pc = "tail"
    /\ obs' = [Obs("tail", NoStep, None) EXCEPT
                   !.spliced = obs.spliced,
                   !.last_resort = IF /\ iterative
                                      /\ current_plan = <<>>
                                      /\ oracle.kind = "none"
                                   THEN ask ELSE NoStep]
    /\ IF ~iterative
       THEN /\ pc' = "done"
            /\ UNCHANGED <<iteration, idx, current_plan, env>>
       ELSE IF current_plan # <<>>
       THEN /\ EnterLoop(current_plan, iteration)
            /\ UNCHANGED <<current_plan, env>>
       ELSE IF oracle.kind = "done"
       THEN /\ pc' = "done"
            /\ UNCHANGED <<iteration, idx, current_plan, env>>
       ELSE IF oracle.kind = "next"
       THEN /\ current_plan' = <<oracle.step>>
            /\ EnterLoop(<<oracle.step>>, iteration)
            /\ env' = [env EXCEPT !.replans = @ + 1]
       ELSE /\ pc' = "done"
            /\ current_plan' = IF ask # NoStep /\ ask.tool # None
                               THEN <<ask>> ELSE current_plan
            /\ env' = [env EXCEPT !.replans = IF ask # NoStep THEN @ + 1 ELSE @]
            /\ UNCHANGED <<iteration, idx>>
    /\ UNCHANGED <<failed_attempts, frozen_tools, guiVars, executed,
                   prev_signature, repeat_fail_count, iterative,
                   stop_on_failure, step_result, coordVars>>

\* the answers an action can consume in the current state
LlmAnswers ==
    IF \E k \in DOMAIN failed_attempts :
           failed_attempts[k] + 1 >= RepeatedFailureThreshold
    THEN StepAnswers ELSE {NoStep}
\* the error-recovery request is made when the step's handling reaches line
\* 2921 with stop_on_failure set: no fallback and no fix was installed
ChainAnswers(llm, fix) ==
    IF /\ pc = "for"
       /\ stop_on_failure
       /\ FailedStep(current_plan[idx], llm, fix, <<>>, QuietAnswers).used = 0
    THEN {c \in RecoveryChains : env.replans + Len(c) <= MaxReplans}
    ELSE {<<>>}
LateChainAnswers(fix) ==
    IF /\ pc = "for"
       /\ stop_on_failure
       /\ FailedStepFrom(current_plan[idx], NoStep, fix, <<>>, QuietAnswers,
                         TRUE).used = 0
    THEN {c \in RecoveryChains : env.replans + Len(c) <= MaxReplans}
    ELSE {<<>>}
ChainVision(chain) == IF chain = <<>> THEN {QuietAnswers} ELSE LoopVisionInputs
StepVision ==
    IF pc = "for" /\ current_plan[idx].tool = "click_at_coordinates"
    THEN LoopVisionInputs ELSE {QuietAnswers}
StepResults ==
    IF pc = "for" THEN ToolResults(current_plan[idx].tool) ELSE {NoResult}
TailOracleAnswers == IF current_plan = <<>> THEN OracleAnswers ELSE {OracleNone}
TailAskAnswers == IF current_plan = <<>> THEN StepAnswers ELSE {NoStep}

Next ==
    \/ \E plan \in InitialPlans, sof \in BOOLEAN : RunTask(plan, sof)
    \/ RunTaskNoPlan
    \/ \E oracle \in OracleAnswers : StepSkipFrozen(oracle)
    \/ StepRaises
    \/ StepSplice
    \/ \E vin \in StepVision, oracle \in OracleAnswers, res \in StepResults :
           StepSucceeds(vin, oracle, res)
    \/ \E llm \in LlmAnswers, fix \in StepAnswers :
           \E chain \in ChainAnswers(llm, fix) :
               \E vin \in ChainVision(chain) : StepFails(llm, fix, chain, vin)
    \/ \E oracle \in TailOracleAnswers, ask \in TailAskAnswers :
           LoopTail(oracle, ask)

Spec == Init /\ [][Next]_vars

\* ============================================================ SpecCascade
\* _handle_repeated_failure called once, for a failed step and a value of
\* its failure counter; llm is the answer of _create_dynamic_solution.
CascadeSteps ==
    {[description |-> "open the messenger", tool |-> "open_application",
      args |-> [app_name |-> "Telegram"]],
     [description |-> "open the messenger", tool |-> "open_application",
      args |-> [note |-> "none"]],
     [description |-> "start \"Telegram\"", tool |-> "open_application"],
     [description |-> "click the link", tool |-> "click_element",
      args |-> [selector |-> "a"]],
     [description |-> "click the link", tool |-> None, name |-> "Click_Element",
      args |-> [selector |-> "a"]],
     Click, ReadX,
     [description |-> "read the notes", tool |-> "read_file"],
     [description |-> "write the notes", tool |-> "write_file",
      args |-> [path |-> "out.txt"]],
     [description |-> "write the notes", tool |-> "write_file",
      args |-> [content |-> "text"]],
     [description |-> "open the page", tool |-> "navigate_to_url",
      args |-> [url |-> "example.org"]],
     [description |-> "fill the form", tool |-> "fill_form",
      args |-> [fields |-> "name"]],
     [description |-> "run the script", tool |-> "execute_javascript",
      args |-> [script |-> "1"]],
     [description |-> "run \"document.title\"", tool |-> "execute_javascript",
      args |-> [script |-> "1"]],
     [description |-> "wait a little", tool |-> "wait_for_seconds",
      args |-> [seconds |-> 1]]}
CascadeInputs ==
    [step : CascadeSteps, llm : {NoStep, ReadY}, count : 0..MaxFailures]

InitCascade ==
    /\ frozen_tools = {}
    /\ gui_verify_policy = "always"
    /\ gui_verify_max_attempts = DefaultVerifyMaxAttempts
    /\ gui_refocus_retry = TRUE
    /\ gui_refocus_offsets = DefaultRefocusOffsets
    /\ InitNoLoop
    /\ pc = "call"
    /\ env \in CascadeInputs
    /\ failed_attempts =
           DictSet(EmptyDict,
                   CounterKey(env.step.description, FailedStepTool(env.step)),
                   env.count)
    /\ obs = [result |-> NoStep]
    /\ step_result = NoStepResult

HandleRepeatedFailure ==
    /\ pc = "call"
    /\ pc' = "returned"
    /\ obs' = [result |-> _handle_repeated_failure(failed_attempts, env.step,
                                                   env.llm)]
    /\ UNCHANGED <<agentVars, coordVars, iteration, current_plan, idx, executed,
                   prev_signature, repeat_fail_count, iterative,
                   stop_on_failure, env, step_result>>

SpecCascade == InitCascade /\ [][HandleRepeatedFailure]_vars

\* =============================================================== SpecOnce
\* execute_plan(plan, stop_on_failure, original_task, iterative=False), the
\* call of line 2929, on an agent some of whose tools may be frozen and with
\* a desktop at hand.
OncePlans ==
    {<<FlowType, FlowSend, FlowFinalShot, ReadX>>, <<ReadX, Click>>,
     <<Click, DynSeq, ReadX>>, <<NoToolStep, ReadY>>}
OnceFrozen == {{}, {"read_file"}}

InitOnce ==
    /\ InitAgentDefaults
    /\ InitNoLoop
    /\ pc = "idle"
    /\ env = [InitEnv EXCEPT !.gui = TRUE]
    /\ obs = NoObs
    /\ step_result = NoStepResult

\* lines 2419-2444 of a non-iterative call
CallNonIterative(plan, sof, frozen) ==
    /\ pc \in {"idle", "done"}
    /\ env.run < MaxRuns
    /\ current_plan' = plan
    /\ executed' = <<>>
    /\ prev_signature' = NoSignature
    /\ repeat_fail_count' = 0
    /\ iterative' = FALSE
    /\ stop_on_failure' = sof
    /\ frozen_tools' = frozen
    /\ EnterLoop(plan, 0)
    /\ env' = [InitEnv EXCEPT !.run = env.run + 1, !.steps = env.steps, !.cap = env.cap,
                              !.gui = env.gui]
    /\ obs' = Obs("execute_plan", NoStep, None)
    /\ step_result' = NoStepResult
    /\ last_icon_coords' = NoCoords
    /\ last_analyzed_coords' = NoCoords
    /\ gui_automation_active' = FALSE
    /\ UNCHANGED <<failed_attempts, guiVars>>

NextOnce ==
    \/ \E plan \in OncePlans, sof \in BOOLEAN, frozen \in OnceFrozen :
           CallNonIterative(plan, sof, frozen)
    \/ \E oracle \in OracleAnswers : StepSkipFrozen(oracle)
    \/ StepRaises
    \/ StepSplice
    \/ \E vin \in StepVision, oracle \in OracleAnswers, res \in StepResults :
           StepSucceeds(vin, oracle, res)
    \/ \E llm \in LlmAnswers, fix \in StepAnswers :
           \E chain \in ChainAnswers(llm, fix) :
               \E vin \in ChainVision(chain) : StepFails(llm, fix, chain, vin)
    \/ \E oracle \in TailOracleAnswers, ask \in TailAskAnswers :
           LoopTail(oracle, ask)

SpecOnce == InitOnce /\ [][NextOnce]_vars

\* ================================================================ SpecGui
\* run_task and execute_plan with a desktop at hand: the screenshot, the
\* analysis and the icon search return results, and the loop keeps the
\* coordinates they find and switches to the synthesized GUI flow.
GuiPlans ==
    {<<Shot, Click>>, <<Analyze, ClickZero>>, <<Locate, ClickBare>>,
     <<Locate, Analyze, ClickZero>>, <<Click>>}

InitGui ==
    /\ InitAgentDefaults
    /\ InitNoLoop
    /\ pc = "idle"
    /\ env = [InitEnv EXCEPT !.gui = TRUE, !.cap = MaxGuiSteps]
    /\ obs = NoObs
    /\ step_result = NoStepResult

NextGui ==
    \/ \E plan \in GuiPlans, sof \in BOOLEAN : RunTask(plan, sof)
    \/ \E oracle \in OracleAnswers : StepSkipFrozen(oracle)
    \/ \E vin \in StepVision, oracle \in OracleAnswers, res \in StepResults :
           StepSucceeds(vin, oracle, res)
    \/ \E llm \in LlmAnswers, fix \in StepAnswers :
           \E chain \in ChainAnswers(llm, fix) :
               \E vin \in ChainVision(chain) : StepFails(llm, fix, chain, vin)
    \/ \E fix \in StepAnswers, res \in StepResults :
           \E chain \in LateChainAnswers(fix) :
               \E vin \in ChainVision(chain) :
                   StepAnalysisFails(res, fix, chain, vin)
    \/ \E oracle \in TailOracleAnswers, ask \in TailAskAnswers :
           LoopTail(oracle, ask)

SpecGui == InitGui /\ [][NextGui]_vars

\* ============================================================= SpecFrozen
\* run_task and execute_plan without a desktop, on plans whose first tool
\* can only fail and is frozen by the stall detector before a click
\* succeeds and is verified.
FrozenPlans == {<<Shot, Click>>, <<ReadX, Click>>}

NextFrozen ==
    \/ \E plan \in FrozenPlans, sof \in BOOLEAN : RunTask(plan, sof)
    \/ \E oracle \in OracleAnswers : StepSkipFrozen(oracle)
    \/ \E vin \in StepVision, oracle \in OracleAnswers, res \in StepResults :
           StepSucceeds(vin, oracle, res)
    \/ \E llm \in LlmAnswers, fix \in StepAnswers :
           \E chain \in ChainAnswers(llm, fix) :
               \E vin \in ChainVision(chain) : StepFails(llm, fix, chain, vin)
    \/ \E oracle \in TailOracleAnswers, ask \in TailAskAnswers :
           LoopTail(oracle, ask)

SpecFrozen == Init /\ [][NextFrozen]_vars

\* =========================================================== SpecRecovery
\* run_task and execute_plan with a model collaborator that answers the
\* error-recovery request of a failing recovery plan with another plan.
RecoveryRunPlans == {<<ReadX, Click>>}

DeepChainAnswers(llm, fix) ==
    IF /\ pc = "for"
       /\ stop_on_failure
       /\ FailedStep(current_plan[idx], llm, fix, <<>>, QuietAnswers).used = 0
    THEN {c \in RecoveryChainsUpTo(MaxNesting) :
             env.replans + Len(c) <= MaxReplans}
    ELSE {<<>>}

NextRecovery ==
    \/ \E plan \in RecoveryRunPlans, sof \in BOOLEAN : RunTask(plan, sof)
    \/ \E oracle \in OracleAnswers : StepSkipFrozen(oracle)
    \/ \E vin \in StepVision, oracle \in OracleAnswers, res \in StepResults :
           StepSucceeds(vin, oracle, res)
    \/ \E llm \in LlmAnswers, fix \in StepAnswers :
           \E chain \in DeepChainAnswers(llm, fix) :
               \E vin \in ChainVision(chain) : StepFails(llm, fix, chain, vin)
    \/ \E oracle \in TailOracleAnswers, ask \in TailAskAnswers :
           LoopTail(oracle, ask)

SpecRecovery == Init /\ [][NextRecovery]_vars

\* ========================================================== SpecScheduler
\* The task scheduler of WindowsCommandManager (src/win_command_func.py):
\* one task, scheduled once or recurring, the thread that runs it and a
\* thread that calls cancel_scheduled_task.  The class takes no lock, so a
\* thread can be preempted between any two accesses to the task's dict: an
\* action is one such access, env.t and env.c are the positions of the
\* executing and of the cancelling thread.
\*   registered      task_id in self.scheduled_tasks
\*   status          task["status"]
\*   has_timer       "timer" in task
\*   timer_finished  the Timer's finished event (set by Timer.cancel)
\*   has_end         end_time of the recurring task is set
\*   handling        the executing thread is in the except clause (line 656)
\*   runs            how often the task's action was executed
\*   cancel_ok, runs_at_cancel   cancel_scheduled_task returned success, and
\*                   the value of runs when it did for the first time
\*   t_at_mark       where the executing thread was when line 717 wrote
\*                   "cancelled" for the first time
\*   rearmed         line 589 wrote "scheduled" over "cancelled"
NoTask ==
    [kind |-> "none", registered |-> FALSE, status |-> "none",
     has_timer |-> FALSE, timer_finished |-> FALSE, has_end |-> FALSE,
     t |-> "none", handling |-> FALSE, c |-> "idle", cancels |-> 0,
     cancel_ok |-> FALSE, runs |-> 0, runs_at_cancel |-> 0,
     t_at_mark |-> "none", rearmed |-> FALSE]
SchedObs(act, returned) == [act |-> act, returned |-> returned]

InitScheduler ==
    /\ InitAgentDefaults
    /\ InitNoLoop
    /\ pc = "idle"
    /\ env = NoTask
    /\ obs = SchedObs("none", "none")
    /\ step_result = NoStepResult

SchedulerStep(e, o) ==
    /\ env' = e
    /\ obs' = o
    /\ UNCHANGED <<agentVars, coordVars, iteration, current_plan, idx, executed,
                   prev_signature, repeat_fail_count, iterative,
                   stop_on_failure, step_result>>

\* schedule_task (lines 510-565) with a delay: the timer is started (line
\* 553) and the task registered (lines 555-556) before the delay, a minute
\* at least, has passed
schedule_task ==
    /\ pc = "idle"
    /\ pc' = "scheduled"
    /\ SchedulerStep([NoTask EXCEPT !.kind = "oneshot", !.registered = TRUE,
                                    !.status = "scheduled", !.has_timer = TRUE,
                                    !.t = "waiting", !.c = env.c,
                                    !.cancels = env.cancels],
                     SchedObs("schedule_task", "success"))

\* schedule_recurring_task (lines 568-615): the task is registered (line
\* 605) before the runner thread starts (line 607); it has no timer
schedule_recurring_task(duration) ==
    /\ pc = "idle"
    /\ pc' = "scheduled"
    /\ SchedulerStep([NoTask EXCEPT !.kind = "recurring", !.registered = TRUE,
                                    !.status = "scheduled", !.has_end = duration,
                                    !.t = "top", !.c = env.c,
                                    !.cancels = env.cancels],
                     SchedObs("schedule_recurring_task", "success"))

\* threading.Timer.run of the timer made at line 551: after the delay it
\* calls _execute_scheduled_task unless the finished event is set
TimerRun ==
    /\ pc = "scheduled"
    /\ env.kind = "oneshot"
    /\ env.t = "waiting"
    /\ pc' = pc
    /\ SchedulerStep([env EXCEPT !.t = IF env.timer_finished
                                       THEN "ended" ELSE "enter"],
                     SchedObs("timer", "none"))

\* _runner (lines 583-591): the loop head (lines 585-587), the write of line
\* 589 after the call has returned, the sleep of line 590, and line 591
\* after the loop; past: datetime.now() >= end_time
_runner(past) ==
    /\ pc = "scheduled"
    /\ env.kind = "recurring"
    /\ env.t \in {"top", "rearm", "sleep", "after_loop"}
    /\ env.t = "top" /\ ~(env.has_end /\ past) => env.runs < MaxFirings
    /\ pc' = pc
    /\ SchedulerStep(
           CASE env.t = "top" ->
                    [env EXCEPT !.t = IF env.has_end /\ past
                                      THEN "after_loop" ELSE "enter"]
             [] env.t = "rearm" ->
                    [env EXCEPT !.status = "scheduled", !.t = "sleep",
                                !.rearmed = @ \/ env.status = "cancelled"]
             [] env.t = "sleep" -> [env EXCEPT !.t = "top"]
             [] env.t = "after_loop" ->
                    [env EXCEPT !.status = "completed", !.t = "ended"],
           SchedObs("_runner", "none"))

\* the return of _execute_scheduled_task to the thread that called it
ExecuteReturns(e) ==
    [e EXCEPT !.t = IF e.kind = "recurring" THEN "rearm" ELSE "ended",
              !.handling = FALSE]
\* the positions of _execute_scheduled_task after the test of line 624
PastTheTest == {"mark", "act", "store", "except", "timer?", "del"}
\* _execute_scheduled_task (lines 617-661), one access to the task per
\* step: the test of line 619, the test of line 624, the write of line 627,
\* the action (lines 630-646), the writes of lines 648-651, the test and
\* the del of lines 653-654, the except clause (lines 656-660).  raises: the
\* action raises.  A del of a key the other thread has deleted raises
\* KeyError: caught at line 656 when it comes from line 654, leaving the
\* function when it comes from line 660.
_execute_scheduled_task(raises) ==
    /\ pc = "scheduled"
    /\ env.t \in {"enter", "cancelled?"} \cup PastTheTest
    /\ pc' = pc
    /\ SchedulerStep(
           CASE env.t = "enter" ->
                    IF ~env.registered THEN ExecuteReturns(env)
                    ELSE [env EXCEPT !.t = "cancelled?"]
             [] env.t = "cancelled?" ->
                    IF env.status = "cancelled" THEN ExecuteReturns(env)
                    ELSE [env EXCEPT !.t = "mark"]
             [] env.t = "mark" ->
                    [env EXCEPT !.status = "executing", !.t = "act"]
             [] env.t = "act" ->
                    [env EXCEPT !.runs = @ + 1,
                                !.t = IF raises THEN "except" ELSE "store"]
             [] env.t = "store" ->
                    [env EXCEPT !.status = "completed", !.t = "timer?"]
             [] env.t = "except" ->
                    [env EXCEPT !.status = "failed", !.handling = TRUE,
                                !.t = "timer?"]
             [] env.t = "timer?" ->
                    IF env.has_timer THEN [env EXCEPT !.t = "del"]
                    ELSE ExecuteReturns(env)
             [] env.t = "del" ->
                    IF env.has_timer
                    THEN ExecuteReturns([env EXCEPT !.has_timer = FALSE])
                    ELSE IF env.handling
                    THEN [env EXCEPT !.t = "ended", !.handling = FALSE]
                    ELSE [env EXCEPT !.t = "except"],
           SchedObs("_execute_scheduled_task", "none"))

\* cancel_scheduled_task (lines 697-729), one access to the task per step:
\* the test of line 701, the test of line 706, Timer.cancel (lines 710-715),
\* the write of line 717, the test and the del of lines 720-721, the return
\* of lines 725-729.  The del of line 721 stands in no try statement: its
\* KeyError leaves the function.
cancel_scheduled_task ==
    /\ env.c = "idle" => env.cancels < MaxCancels
    /\ pc' = pc
    /\ LET error == [env EXCEPT !.c = "idle"]
       IN CASE env.c = "idle" ->
                   IF ~env.registered
                   THEN SchedulerStep([error EXCEPT !.cancels = @ + 1],
                            SchedObs("cancel_scheduled_task", "error"))
                   ELSE SchedulerStep([env EXCEPT !.c = "status?",
                                                  !.cancels = @ + 1],
                            SchedObs("cancel_scheduled_task", "none"))
            [] env.c = "status?" ->
                   IF env.status # "scheduled"
                   THEN SchedulerStep(error,
                            SchedObs("cancel_scheduled_task", "error"))
                   ELSE SchedulerStep([env EXCEPT !.c = "cancel"],
                            SchedObs("cancel_scheduled_task", "none"))
            [] env.c = "cancel" ->
                   SchedulerStep([env EXCEPT !.c = "mark",
                                     !.timer_finished = @ \/ env.has_timer],
                       SchedObs("cancel_scheduled_task", "none"))
            [] env.c = "mark" ->
                   SchedulerStep([env EXCEPT !.c = "timer?",
                                             !.status = "cancelled",
                                             !.t_at_mark =
                                                 IF env.cancel_ok THEN @
                                                 ELSE env.t],
                       SchedObs("cancel_scheduled_task", "none"))
            [] env.c = "timer?" ->
                   SchedulerStep([env EXCEPT !.c = IF env.has_timer
                                                   THEN "del" ELSE "return"],
                       SchedObs("cancel_scheduled_task", "none"))
            [] env.c = "del" ->
                   IF env.has_timer
                   THEN SchedulerStep([env EXCEPT !.c = "return",
                                                  !.has_timer = FALSE],
                            SchedObs("cancel_scheduled_task", "none"))
                   ELSE SchedulerStep(error,
                            SchedObs("cancel_scheduled_task", "raised"))
            [] env.c = "return" ->
                   SchedulerStep([env EXCEPT !.c = "idle", !.cancel_ok = TRUE,
                                     !.runs_at_cancel = IF env.cancel_ok THEN @
                                                        ELSE env.runs],
                       SchedObs("cancel_scheduled_task", "success"))

NextScheduler ==
    \/ schedule_task
    \/ \E duration \in BOOLEAN : schedule_recurring_task(duration)
    \/ TimerRun
    \/ \E past \in BOOLEAN : _runner(past)
    \/ \E raises \in BOOLEAN : _execute_scheduled_task(raises)
    \/ cancel_scheduled_task

SpecScheduler == InitScheduler /\ [][NextScheduler]_vars


\* =========================================================== SpecElements
\* The runs of Spec, and the runs of plans with an element that is no
\* object: a JSON string among the steps, as _extract_json_from_text hands
\* on whatever list the model's text decodes to.  The record gives the
\* element the fields the guards of the other actions read.
BareText ==
    [text |-> "take a screenshot", description |-> "", tool |-> None,
     args |-> [none |-> TRUE]]
MalformedPlans == {<<BareText>>, <<NoToolStep, BareText>>}

\* line 2445 is outside the try of line 2446: AttributeError leaves
\* execute_plan, and run_task, which calls it unguarded (line 3524)
StepNotObject ==
    /\ pc = "for"
    /\ StepsLeft
    /\ ~IsObject(current_plan[idx])
    /\ pc' = "raised"
    /\ env' = Replanned(0)
    /\ obs' = Obs("not_object", current_plan[idx], None)
    /\ UNCHANGED <<failed_attempts, frozen_tools, guiVars, coordVars, iteration,
                   current_plan, idx, executed, prev_signature,
                   repeat_fail_count, iterative, stop_on_failure, step_result>>

NextElements ==
    \/ Next
    \/ \E plan \in MalformedPlans, sof \in BOOLEAN : RunTask(plan, sof)
    \/ StepNotObject

SpecElements == Init /\ [][NextElements]_vars


\* ============================================================= SpecBudget
\* One iterative execute_plan against a model and tools that never let a
\* step through: every dispatch is classified failed, every request for a
\* fix is answered with a step, and so is every oracle request after a
\* skipped step.  The answers are free for the first MaxReplans requests and
\* follow BudgetRule afterwards.
BudgetSteps == {ReadX, ReadXAgain, ReadY, Click}
BudgetPlans == {<<ReadX>>, <<Click, ReadXAgain>>, <<ReadY, ReadX, Click>>}
BudgetRule(step) == IF step.tool = "read_file" THEN Click ELSE ReadX
BudgetAnswers ==
    IF pc # "for" THEN {}
    ELSE IF env.replans < MaxReplans THEN BudgetSteps
    ELSE {BudgetRule(current_plan[idx])}

InitBudget ==
    /\ InitAgentDefaults
    /\ current_plan \in BudgetPlans
    /\ stop_on_failure \in BOOLEAN
    /\ iterative = TRUE
    /\ executed = <<>>
    /\ prev_signature = NoSignature
    /\ repeat_fail_count = 0
    /\ iteration = 1
    /\ idx = 1
    /\ pc = "for"
    /\ last_icon_coords = NoCoords
    /\ last_analyzed_coords = NoCoords
    /\ gui_automation_active = FALSE
    /\ env = [InitEnv EXCEPT !.run = 1, !.bounded = FALSE]
    /\ obs = NoObs
    /\ step_result = NoStepResult

BudgetFails(fix) == StepFails(NoStep, fix, <<>>, QuietAnswers)
BudgetSkips(next) == StepSkipFrozen(OracleNext(next))
BudgetTail == LoopTail(OracleNone, NoStep)

NextBudget ==
    \/ \E fix \in BudgetAnswers : BudgetFails(fix)
    \/ \E next \in BudgetAnswers : BudgetSkips(next)
    \/ BudgetTail

\* the loop is a sequential program: it takes its next step whenever it has one
SpecBudget == InitBudget /\ [][NextBudget]_vars /\ WF_vars(NextBudget)


\* ============================================================= SpecDetect
\* check_task_completion (lines 2246-2403) applied once to a task text and a
\* history of executed steps.
MaxHistoryLen == 3

\* The history records: each step of the message scenario with every status
\* execute_plan records, the others with the status their rule looks for.
DetectRecords ==
    {StepRecord([description |-> st[2], tool |-> st[1]], status) :
        st \in {d \in DetectSteps :
                   d[1] \in {"type_text", "press_key"}
                   \/ d[2] = "final screenshot"},
        status \in {"success", "failed", "skipped"}}
    \cup {StepRecord([description |-> st[2], tool |-> st[1]], "success") :
            st \in {d \in DetectSteps :
                       d[1] \in {"click_at_coordinates", "open_application"}
                       \/ d[2] = "screenshot of the search result"}}
    \cup {StepRecord([description |-> "start the application",
                      tool |-> "execute_system_command"], "failed")}

RECURSIVE HistoriesUpTo(_)
HistoriesUpTo(n) ==
    IF n = 0 THEN {<<>>}
    ELSE LET shorter == HistoriesUpTo(n - 1)
         IN shorter \cup {Append(h, r) : h \in {g \in shorter : Len(g) = n - 1},
                                         r \in DetectRecords}

\* word lists of lines 2274 and 2284 (the English words)
OracleSearchWords == {"search", "find"}
OracleMessageWords == {"send", "write", "message"}

\* lines 2257-2266
AppOpened(history) ==
    \E i \in 1..Len(history) :
        /\ \/ Contains(history[i].tool, "open_application")
           \/ Contains(history[i].tool, "locate_app_icon")
        /\ history[i].status = "success"

\* _find_last_successful_step (lines 201-210), as "is there one"
HasLastSuccessful(history, tool_name) ==
    /\ ToLower(tool_name) # ""
    /\ \E i \in 1..Len(history) :
           /\ ToLower(history[i].tool) = ToLower(tool_name)
           /\ history[i].status = "success"

\* the step of lines 2276-2281
InterfaceScreenshotStep ==
    [description |-> "analyse the interface and look for the element",
     tool |-> "take_desktop_screenshot",
     args |-> [filename |-> "app_interface.png"]]

\* _prepare_gui_analysis_step (lines 297-332); has_path: the record of the
\* last successful screenshot carries a file path or a file name
_prepare_gui_analysis_step(history, description, has_path) ==
    IF HasLastSuccessful(history, "take_desktop_screenshot") /\ has_path
    THEN [description |-> description, tool |-> "analyze_image",
          args |-> [image_path |-> "screenshot.png"]]
    ELSE [description |-> description, tool |-> "take_desktop_screenshot",
          args |-> [filename |-> "app_interface.png"]]

\* check_task_completion (lines 2246-2403).  llm is the answer of the model
\* as the code reads it: done | next step | none (no usable answer, or the
\* call raised).  via names the return statement taken.
check_task_completion(task, history, llm, has_path) ==
    IF _detect_task_completion(task, history)
    THEN [completed |-> TRUE, next_step |-> NoStep, via |-> "heuristic",
          model_called |-> FALSE]
    ELSE IF AppOpened(history) /\ task # ""
            /\ LowerContainsAny(task, OracleSearchWords)
    THEN [completed |-> FALSE, next_step |-> InterfaceScreenshotStep,
          via |-> "opened_search", model_called |-> FALSE]
    ELSE IF AppOpened(history) /\ task # ""
            /\ LowerContainsAny(task, OracleMessageWords)
    THEN [completed |-> FALSE,
          next_step |-> _prepare_gui_analysis_step(
                            history, "analyse the interface for the action",
                            has_path),
          via |-> "opened_message", model_called |-> FALSE]
    ELSE IF /\ Len(history) >= 2
            /\ Contains(ToLower(history[Len(history)].tool),
                        "execute_system_command")
            /\ history[Len(history)].status = "failed"
            /\ AppOpened(history)
    THEN [completed |-> FALSE,
          next_step |-> _prepare_gui_analysis_step(
                            history, "analyse the interface for the task",
                            has_path),
          via |-> "reopen_skipped", model_called |-> FALSE]
    ELSE [completed |-> llm.kind = "done",
          next_step |-> IF llm.kind = "next" THEN llm.step ELSE NoStep,
          via |-> "model", model_called |-> TRUE]

\* The answers that matter for the history: the model is asked only when no
\* rule returns first, the path only when a rule prepares a GUI analysis.
DetectModelAnswers == {OracleDone, OracleNone, OracleNext(Click)}
DetectInputs(task, history) ==
    LET probe == check_task_completion(task, history, OracleNone, FALSE)
    IN {[llm |-> l, has_path |-> hp] :
           l \in (IF probe.model_called THEN DetectModelAnswers
                  ELSE {OracleNone}),
           hp \in (IF probe.via \in {"opened_message", "reopen_skipped"}
                      /\ HasLastSuccessful(history, "take_desktop_screenshot")
                   THEN BOOLEAN ELSE {FALSE})}

NoVerdict ==
    [completed |-> FALSE, next_step |-> NoStep, via |-> "none",
     model_called |-> FALSE]

InitDetect ==
    /\ InitAgentDefaults
    /\ iteration = 0
    /\ current_plan = <<>>
    /\ idx = 0
    /\ prev_signature = <<>>
    /\ repeat_fail_count = 0
    /\ iterative = TRUE
    /\ stop_on_failure = TRUE
    /\ last_icon_coords = NoCoords
    /\ last_analyzed_coords = NoCoords
    /\ gui_automation_active = FALSE
    /\ pc = "detect"
    /\ \E task \in DetectTasks : env = [task |-> task]
    /\ executed \in HistoriesUpTo(MaxHistoryLen)
    /\ obs = NoVerdict
    /\ step_result = NoStepResult

CheckCompletion(inp) ==
    /\ pc = "detect"
    /\ pc' = "checked"
    /\ obs' = check_task_completion(env.task, executed, inp.llm, inp.has_path)
    /\ UNCHANGED <<agentVars, coordVars, iteration, current_plan, idx, executed,
                   prev_signature, repeat_fail_count, iterative,
                   stop_on_failure, env, step_result>>

NextDetect == \E inp \in DetectInputs(env.task, executed) : CheckCompletion(inp)

SpecDetect == InitDetect /\ [][NextDetect]_vars


\* ========================================================== SpecNormalize
\* _normalize_tool_result (lines 846-889) applied once to a raw tool result.
\* Python values: None, strings, integers, and an object whose str() raises.
PyNone == [t |-> "none"]
Str(s) == [t |-> "str", s |-> s]
Num(n) == [t |-> "int", n |-> n]
Unprintable == [t |-> "unprintable"]
\* a list of len elements
PyList(len) == [t |-> "list", len |-> len]
\* a dict as a value
PyDict(d) == [t |-> "dict", d |-> d]
\* the marker of a key the raw map does not have
Absent == [t |-> "absent"]

\* bool(v)
Truthy(v) ==
    CASE v.t = "none" -> FALSE
      [] v.t = "str" -> v.s # ""
      [] v.t = "int" -> v.n # 0
      [] v.t = "list" -> v.len # 0
      [] OTHER -> TRUE

Digits == <<"0", "1", "2", "3", "4", "5", "6", "7", "8", "9">>
RECURSIVE NatStr(_)
NatStr(n) == IF n < 10 THEN Digits[n + 1] ELSE NatStr(n \div 10) \o Digits[(n % 10) + 1]
\* str(v), for the values that have one
PyStr(v) ==
    CASE v.t = "none" -> "None"
      [] v.t = "str" -> v.s
      [] v.t = "int" -> IF v.n < 0 THEN "-" \o NatStr(0 - v.n) ELSE NatStr(v.n)
StrRaises(v) == v.t = "unprintable"

\* d.get(key)
PyGet(d, key) == IF key \in DOMAIN d THEN d[key] ELSE PyNone
\* the dict with the keys of the row that are present
DictOf(row) == [k \in {key \in DOMAIN row : row[key] # Absent} |-> row[k]]

\* lines 868-873: the first of filepath, path, file that holds a string
FilePathKeys == <<"filepath", "path", "file">>
RECURSIVE FirstStringKey(_, _)
FirstStringKey(res, i) ==
    IF i > Len(FilePathKeys) THEN ""
    ELSE IF FilePathKeys[i] \in DOMAIN res /\ res[FilePathKeys[i]].t = "str"
         THEN FilePathKeys[i]
         ELSE FirstStringKey(res, i + 1)

NormalizationFailed ==
    [k \in {"status", "error", "stdout", "stderr"} |->
        CASE k = "status" -> Str("error")
          [] k = "error" -> Str("normalization_failed")
          [] OTHER -> Str("")]

\* raw: [kind |-> "none"] | [kind |-> "map", map |-> d]
\*      | [kind |-> "bare", value |-> v]
_normalize_tool_result(raw) ==
    IF raw.kind = "none"
    THEN [k \in {"status", "error", "stdout", "stderr"} |->
             CASE k = "status" -> Str("error")
               [] k = "error" -> Str("no result")
               [] OTHER -> Str("")]
    ELSE IF raw.kind = "map"
    THEN LET res == raw.map
             st0 == PyGet(res, "status")
             st == IF st0 = PyNone
                   THEN IF Truthy(PyGet(res, "error")) THEN Str("error")
                        ELSE Str("success")
                   ELSE st0
             out == PyGet(res, "stdout")
             err == PyGet(res, "stderr")
         IN IF StrRaises(st) \/ StrRaises(out) \/ StrRaises(err)
            THEN NormalizationFailed
            ELSE LET r1 == DictSet(res, "status", Str(PyStr(st)))
                     r2 == IF "error" \in DOMAIN r1 THEN r1
                           ELSE DictSet(r1, "error", PyNone)
                     fk == FirstStringKey(r2, 1)
                     r3 == IF "file_path" \notin DOMAIN r2 /\ fk # ""
                           THEN DictSet(r2, "file_path", r2[fk]) ELSE r2
                     r4 == DictSet(r3, "stdout",
                                   IF out = PyNone THEN Str("")
                                   ELSE Str(PyStr(out)))
                 IN DictSet(r4, "stderr",
                            IF err = PyNone THEN Str("") ELSE Str(PyStr(err)))
    ELSE IF StrRaises(raw.value) THEN NormalizationFailed
    ELSE [k \in {"status", "error", "stdout", "stderr", "result"} |->
             CASE k = "status" -> Str("success")
               [] k = "error" -> PyNone
               [] k = "stdout" -> Str(PyStr(raw.value))
               [] k = "stderr" -> Str("")
               [] OTHER -> raw.value]

\* The raw results: None, bare values, and maps with every combination of
\* the keys the normalizer reads.
RawRows ==
    [status : {Absent, PyNone, Str("success"), Str("failed"), Num(0)},
     error : {Absent, PyNone, Str(""), Str("boom"), Num(0)},
     stdout : {Absent, PyNone, Str("out"), Num(15), Unprintable},
     stderr : {Absent, PyNone, Str("warn")},
     file_path : {Absent, Str("a.png")},
     filepath : {Absent, Num(1), Str("b.png")},
     path : {Absent, Str("c.png")}]
RawResults ==
    {[kind |-> "none"]}
    \cup {[kind |-> "bare", value |-> v] :
            v \in {Str("done"), Str(""), Num(0), Num(42), Unprintable}}
    \cup {[kind |-> "map", map |-> DictOf(row)] : row \in RawRows}

InitNormalize ==
    /\ InitAgentDefaults
    /\ InitNoLoop
    /\ pc = "raw"
    /\ env \in RawResults
    /\ obs = [k \in {} |-> PyNone]
    /\ step_result = NoStepResult

Normalize ==
    /\ pc = "raw"
    /\ pc' = "normalized"
    /\ obs' = _normalize_tool_result(env)
    /\ UNCHANGED <<agentVars, coordVars, iteration, current_plan, idx, executed,
                   prev_signature, repeat_fail_count, iterative,
                   stop_on_failure, env, step_result>>

SpecNormalize == InitNormalize /\ [][Normalize]_vars


\* =========================================================== SpecDispatch
\* execute_tool (lines 940-1236) applied once to a tool call, against an
\* operation that returns a raw result or raises.  The renaming of argument
\* keys (lines 1045-1157) changes what the operation is given, not which
\* statement returns, and is left to the operation's answer.
DispatchTools ==
    {"read_file", "schedule_task", "write_csv_file", "open_application",
     "analyze_image"}

\* what a statement yields: a returned value or a raised exception; invoked
\* counts the calls of the operation, via names the return statement
Returned(value, via, invoked) ==
    [raised |-> FALSE, exc |-> "", value |-> value, via |-> via,
     invoked |-> invoked]
Raised(exc, invoked) ==
    [raised |-> TRUE, exc |-> exc, value |-> [kind |-> "none"],
     via |-> "raised", invoked |-> invoked]
\* {"error": msg}
ErrorMap(msg) == [kind |-> "map", map |-> [k \in {"error"} |-> Str(msg)]]

\* try: ... except Exception as e: return {"error": f"...: {str(e)}"}
\* (lines 942, 1234-1236)
CatchNothing(outcome) == outcome
CatchAll(outcome) ==
    IF outcome.raised
    THEN Returned(ErrorMap("tool execution error: " \o outcome.exc),
                  "exception", outcome.invoked)
    ELSE outcome

\* lines 1199-1208: call with keyword arguments; on TypeError call once more
\* with the arguments as one positional value.  op = [kwargs, positional]:
\* what the operation does when called either way, [raises, exc, raw].
CallWithRetry(args, op) ==
    LET mapping == args.t \in {"dict", "none"}
        first == IF mapping THEN op.kwargs
                 ELSE [raises |-> TRUE, exc |-> "TypeError",
                       raw |-> [kind |-> "none"]]
        n1 == IF mapping THEN 1 ELSE 0
    IN IF ~first.raises THEN Returned(first.raw, "returned", n1)
       ELSE IF first.exc # "TypeError" THEN Raised(first.exc, n1)
       ELSE IF op.positional.raises THEN Raised(op.positional.exc, n1 + 1)
       ELSE Returned(op.positional.raw, "returned", n1 + 1)

\* lines 1186-1197: write_csv_file is called directly, its result returned
\* as it is
WriteCsv(args, op) ==
    LET a == args.d
        filepath == IF Truthy(PyGet(a, "path")) THEN PyGet(a, "path")
                    ELSE IF Truthy(PyGet(a, "filepath")) THEN PyGet(a, "filepath")
                    ELSE PyGet(a, "file_path")
        data == IF Truthy(PyGet(a, "data")) THEN PyGet(a, "data")
                ELSE IF Truthy(PyGet(a, "rows")) THEN PyGet(a, "rows")
                ELSE PyList(0)
    IN IF ~Truthy(filepath)
       THEN Returned(ErrorMap("no path to the CSV file"), "bad_args", 0)
       ELSE IF ~Truthy(data)
       THEN Returned(ErrorMap("no data to write"), "bad_args", 0)
       ELSE IF op.positional.raises THEN Raised(op.positional.exc, 1)
       ELSE Returned(op.positional.raw, "returned", 1)

\* the body of the try block (lines 943-1232).
\* call: [kind |-> "other"] | [kind |-> "text", parsed |-> call]
\*       | [kind |-> "map", name |-> value or Absent, arguments |-> value]
ExecuteToolBody(call, op) ==
    LET tc == IF call.kind = "text" THEN call.parsed ELSE call
    IN IF tc.kind # "map"
       THEN Returned(ErrorMap("bad tool call format"), "bad_format", 0)
       ELSE LET name == IF tc.name = Absent THEN PyNone ELSE tc.name
                args == tc.arguments
            IN IF ~Truthy(name)
               THEN Returned(ErrorMap("no tool name"), "no_name", 0)
               ELSE IF name.s \notin DispatchTools
               THEN Returned(ErrorMap("unknown tool: " \o name.s),
                             "unknown_tool", 0)
               ELSE IF /\ name.s = "schedule_task" /\ args.t = "dict"
                       /\ {"action", "command", "custom_action"}
                              \cap DOMAIN args.d = {}
               THEN Returned(ErrorMap("the scheduler needs an action"),
                             "bad_args", 0)
               ELSE IF name.s = "write_csv_file" /\ args.t = "dict"
               THEN WriteCsv(args, op)
               ELSE LET called == CallWithRetry(args, op)
                    IN IF called.raised THEN called
                       ELSE Returned([kind |-> "map",
                                      map |-> _normalize_tool_result(called.value)],
                                     "returned", called.invoked)

execute_tool(call, op) == CatchAll(ExecuteToolBody(call, op))

\* The tool calls and the operation's answers.
DispatchArgs ==
    {PyNone, Str("a.txt"), PyDict([k \in {} |-> PyNone]),
     PyDict([k \in {"action"} |-> Str("close_browser")]),
     PyDict([k \in {"command"} |-> Str("dir")]),
     PyDict([k \in {"path"} |-> Str("a.csv")]),
     PyDict([k \in {"filepath", "rows"} |->
                IF k = "rows" THEN PyList(2) ELSE Str("a.csv")])}
DispatchNames ==
    {Absent, PyNone, Str(""), Str("no_such_tool")}
    \cup {Str(t) : t \in DispatchTools}
MapCalls ==
    {[kind |-> "map", name |-> n, arguments |-> a] :
        n \in DispatchNames, a \in DispatchArgs}
ToolCalls ==
    {[kind |-> "other"]} \cup MapCalls
    \cup {[kind |-> "text", parsed |-> c] :
            c \in {[kind |-> "other"],
                   [kind |-> "map", name |-> Str("read_file"),
                    arguments |-> PyDict([k \in {"path"} |-> Str("a.csv")])]}}
DispatchRaws ==
    {[kind |-> "none"], [kind |-> "bare", value |-> Str("done")],
     [kind |-> "map", map |-> [k \in {"error"} |-> Str("boom")]],
     [kind |-> "map", map |-> [k \in {} |-> PyNone]],
     [kind |-> "map", map |-> [k \in {"stdout"} |-> Unprintable]]}
CallAnswers ==
    {[raises |-> FALSE, exc |-> "", raw |-> r] : r \in DispatchRaws}
    \cup {[raises |-> TRUE, exc |-> e, raw |-> [kind |-> "none"]] :
            e \in {"TypeError", "ValueError"}}
\* the positional answer matters after a TypeError, and for write_csv_file
Operations ==
    {[kwargs |-> k, positional |-> p] : k \in CallAnswers, p \in CallAnswers}

InitDispatch ==
    /\ InitAgentDefaults
    /\ InitNoLoop
    /\ pc = "call"
    /\ env \in {[call |-> c, op |-> o] : c \in ToolCalls, o \in Operations}
    /\ obs = Returned([kind |-> "none"], "none", 0)
    /\ step_result = NoStepResult

ExecuteTool ==
    /\ pc = "call"
    /\ pc' = "dispatched"
    /\ obs' = execute_tool(env.call, env.op)
    /\ UNCHANGED <<agentVars, coordVars, iteration, current_plan, idx, executed,
                   prev_signature, repeat_fail_count, iterative,
                   stop_on_failure, env, step_result>>

SpecDispatch == InitDispatch /\ [][ExecuteTool]_vars


\* ============================================================ SpecExtract
\* _extract_json_from_text applied once to a text that json.loads accepts
\* (lines 1246-1278); what the text decodes to is the input.  Texts that
\* json.loads rejects take the regular-expression branches of lines
\* 1280-1372, which this specification leaves out.
\* a JSON array with its elements
JList(items) == [t |-> "jlist", items |-> items]
Undecodable == [t |-> "undecodable"]

\* json.loads on the texts a "thinking" field holds in this specification
ThinkingTexts ==
    {"let me think", "[]", "7", "{}", "{\"plan\": []}", "{\"steps\": [1]}",
     "{\"plan\": 3}"}
JsonLoads(text) ==
    CASE text = "[]" -> JList(<<>>)
      [] text = "7" -> Num(7)
      [] text = "{}" -> PyDict([k \in {} |-> PyNone])
      [] text = "{\"plan\": []}" -> PyDict([k \in {"plan"} |-> JList(<<>>)])
      [] text = "{\"steps\": [1]}" -> PyDict([k \in {"steps"} |-> JList(<<Num(1)>>)])
      [] text = "{\"plan\": 3}" -> PyDict([k \in {"plan"} |-> Num(3)])
      [] OTHER -> Undecodable

HasList(d, key) == key \in DOMAIN d /\ d[key].t = "jlist"

\* lines 1256-1268: [found, value]
FromThinking(parsed) ==
    LET none == [found |-> FALSE, value |-> PyNone]
        obj == IF "thinking" \in DOMAIN parsed /\ parsed["thinking"].t = "str"
               THEN JsonLoads(parsed["thinking"].s) ELSE Undecodable
    IN IF obj.t = "jlist" THEN [found |-> TRUE, value |-> obj]
       ELSE IF obj.t = "dict" /\ HasList(obj.d, "plan")
       THEN [found |-> TRUE, value |-> obj.d["plan"]]
       ELSE IF obj.t = "dict" /\ HasList(obj.d, "steps")
       THEN [found |-> TRUE, value |-> obj.d["steps"]]
       ELSE none

\* lines 1270-1272: the first of plan, steps, response that holds a list
PlanKeys == <<"plan", "steps", "response">>
RECURSIVE FirstListKey(_, _)
FirstListKey(parsed, i) ==
    IF i > Len(PlanKeys) THEN ""
    ELSE IF HasList(parsed, PlanKeys[i]) THEN PlanKeys[i]
    ELSE FirstListKey(parsed, i + 1)

\* line 1274
NeverAStep(parsed) == FALSE
LooksLikeStep(parsed) ==
    /\ {"tool", "name"} \cap DOMAIN parsed # {}
    /\ {"args", "description", "step"} \cap DOMAIN parsed # {}

\* lines 1246-1278, for a text decoding to the value parsed
_extract_json_from_text(parsed) ==
    IF parsed.t = "jlist" THEN parsed
    ELSE IF parsed.t = "dict"
    THEN LET th == FromThinking(parsed.d)
             key == FirstListKey(parsed.d, 1)
         IN IF th.found THEN th.value
            ELSE IF key # "" THEN parsed.d[key]
            ELSE IF LooksLikeStep(parsed.d) THEN JList(<<parsed>>)
            ELSE parsed
    ELSE parsed

\* The decoded texts: objects with every combination of the keys the
\* function looks at, and values that are no objects.
ObjectRows ==
    [tool : {Absent, Str("read_file")},
     name : {Absent, Str("read_file")},
     description : {Absent, Str("read the file")},
     args : {Absent, PyDict([k \in {"path"} |-> Str("a.txt")])},
     thinking : {Absent, Num(1)} \cup {Str(t) : t \in ThinkingTexts},
     plan : {Absent, JList(<<>>), Str("later")},
     steps : {Absent, JList(<<Num(1)>>)},
     response : {Absent, JList(<<Str("hi")>>), Str("ok")}]
DecodedTexts ==
    {PyDict(DictOf(row)) : row \in ObjectRows}
    \cup {JList(<<>>), JList(<<Num(1)>>), Num(7), Str("done"), PyNone}

InitExtract ==
    /\ InitAgentDefaults
    /\ InitNoLoop
    /\ pc = "text"
    /\ env \in DecodedTexts
    /\ obs = PyNone
    /\ step_result = NoStepResult

ExtractJson ==
    /\ pc = "text"
    /\ pc' = "extracted"
    /\ obs' = _extract_json_from_text(env)
    /\ UNCHANGED <<agentVars, coordVars, iteration, current_plan, idx, executed,
                   prev_signature, repeat_fail_count, iterative,
                   stop_on_failure, env, step_result>>

SpecExtract == InitExtract /\ [][ExtractJson]_vars


\* =============================================================== SpecPlan
\* create_task_plan (lines 1810-2098) applied once to a task text, with the
\* two model answers as inputs, and _rule_based_plan (lines 3428-3498).
\* The key words of the rules are Russian; TLA+ strings are ASCII, so each
\* Russian word is written in transliteration (otkroj, zapusti, perejdi,
\* brauzer, najdi, najti, ishchi, poisk, kalkulyator, vklyuchi, vebkameru,
\* kamera, prilozhenie, programmu).  The English words are the code's own.
LaunchVerbs == {"zapusti", "otkroj"}
BrowseVerbs == {"otkroj", "zapusti", "perejdi"}
SearchVerbs == {"najdi", "najti", "ishchi", "poisk"}
CalculatorWords == {"kalkulyator", "calc", "calculator"}
CameraVerbs == {"vklyuchi", "otkroj"}
CameraWords == {"vebkameru", "kamera", "webcam"}
AppWords ==
    {"prilozhenie", "programmu", "app", "application", "telegram", "notepad",
     "calc"}
KnownDomains == <<"avito.ru", "yandex.ru", "google.com", "bing.com">>

\* the match of https?://[^\s...]+ (config.py line 123), ignoring case,
\* taken up to the next blank; "": no match
UrlMatch(text) ==
    LET low == Lower(text)
        starts == {i \in 1..Len(low) :
                      \/ (i + 7 <= Len(low) /\ SubSeq(low, i, i + 6) = "http://"
                          /\ SubSeq(low, i + 7, i + 7) # " ")
                      \/ (i + 8 <= Len(low) /\ SubSeq(low, i, i + 7) = "https://"
                          /\ SubSeq(low, i + 8, i + 8) # " ")}
    IN IF starts = {} THEN ""
       ELSE LET i == CHOOSE a \in starts : \A b \in starts : a <= b
                blanks == {k \in i..Len(text) : SubSeq(text, k, k) = " "}
                j == IF blanks = {} THEN Len(text) + 1
                     ELSE CHOOSE a \in blanks : \A b \in blanks : a <= b
            IN SubSeq(text, i, j - 1)

RECURSIVE FirstDomain(_, _)
FirstDomain(low, i) ==
    IF i > Len(KnownDomains) THEN ""
    ELSE IF Contains(low, KnownDomains[i]) THEN KnownDomains[i]
    ELSE FirstDomain(low, i + 1)

\* _extract_url_or_domain (lines 2973-2989); "": None
_extract_url_or_domain(text) ==
    IF UrlMatch(text) # "" THEN UrlMatch(text)
    ELSE IF FirstDomain(Lower(text), 1) # ""
    THEN "https://" \o FirstDomain(Lower(text), 1)
    ELSE ""

PlanStep(description, tool, args) ==
    [description |-> description, tool |-> tool, args |-> args]

\* lines 3468-3471
CalculatorRule(td) ==
    ContainsAny(td, LaunchVerbs) /\ ContainsAny(td, CalculatorWords)

\* lines 3484-3489: the first word of the task that names an application
RECURSIVE AppToken(_, _)
AppToken(text, from) ==
    IF from > Len(text) THEN ""
    ELSE LET blanks == {k \in from..Len(text) : SubSeq(text, k, k) = " "}
             j == IF blanks = {} THEN Len(text) + 1
                  ELSE CHOOSE a \in blanks : \A b \in blanks : a <= b
             word == SubSeq(text, from, j - 1)
         IN IF ContainsAny(Lower(word), {"telegram", "notepad", "calc", ".exe"})
            THEN word
            ELSE AppToken(text, j + 1)

\* _rule_based_plan (lines 3428-3498)
_rule_based_plan(task_description) ==
    LET td == Lower(task_description)
        url == _extract_url_or_domain(task_description)
        shot(name) == PlanStep("screenshot", "take_screenshot", [filename |-> name])
        browser == PlanStep("start the browser", "initialize_browser",
                            [headless |-> FALSE])
        goto == PlanStep("go to " \o url, "navigate_to_url", [url |-> url])
    IN IF ContainsAny(td, BrowseVerbs) /\ (Contains(td, "brauzer") \/ url # "")
       THEN IF url # "" THEN <<browser, goto, shot("opened_page.png")>>
            ELSE <<browser>>
       ELSE IF ContainsAny(td, SearchVerbs) /\ url # ""
       THEN IF Contains(td, "avito")
            THEN <<browser, goto,
                   PlanStep("find the search field", "extract_text_from_page",
                            [selectors |-> "input"]),
                   PlanStep("fill in the query", "fill_form", [submit |-> TRUE]),
                   PlanStep("wait for the results", "navigate_to_url",
                            [url |-> url \o "/search"]),
                   PlanStep("extract the items", "extract_text_from_page",
                            [selectors |-> "items"]),
                   shot("search_results.png")>>
            ELSE <<browser, goto,
                   PlanStep("search", "extract_text_from_page",
                            [selectors |-> "body"]),
                   shot("search_results.png")>>
       ELSE IF CalculatorRule(td)
       THEN <<PlanStep("start the calculator", "open_application",
                       [app_name |-> "calc"])>>
       ELSE IF ContainsAny(td, CameraVerbs) /\ ContainsAny(td, CameraWords)
       THEN <<PlanStep("open the camera", "open_camera", [none |-> TRUE]),
              PlanStep("take a photo", "take_photo", [filename |-> "camera.png"])>>
       ELSE IF ContainsAny(td, LaunchVerbs) /\ ContainsAny(td, AppWords)
       THEN LET app_name == AppToken(task_description, 1)
            IN <<PlanStep("check the running processes", "list_processes",
                          [name_filter |-> app_name]),
                 PlanStep("start by the system strategies",
                          "open_application_advanced", [app_name |-> app_name]),
                 PlanStep("minimize all windows", "minimize_all_windows",
                          [none |-> TRUE]),
                 PlanStep("find the desktop icon", "locate_app_icon_on_desktop",
                          [app_name |-> app_name]),
                 PlanStep("click the icon", "click_at_coordinates",
                          [x |-> 500, y |-> 300])>>
       ELSE <<>>

\* The model's answers as create_task_plan reads them.  First answer (lines
\* 1985-2052): no list, an empty list, a list without a valid step, or a
\* plan; second answer (lines 2070-2081): no list, an empty list, a plan,
\* or the call raises.
ModelPlan == <<ReadX>>
FirstAnswers == {"no_list", "empty_list", "no_valid_step", "plan"}
SecondAnswers == {"no_list", "empty_list", "plan", "raises"}

\* create_task_plan: [plan, via]
create_task_plan(task_description, first, second) ==
    IF first = "plan" THEN [plan |-> ModelPlan, via |-> "model"]
    ELSE IF second = "raises" THEN [plan |-> <<>>, via |-> "exception"]
    ELSE IF second = "plan" THEN [plan |-> ModelPlan, via |-> "model_retry"]
    ELSE LET rb == _rule_based_plan(task_description)
         IN IF rb # <<>> THEN [plan |-> rb, via |-> "rules"]
            ELSE [plan |-> <<>>, via |-> "none"]

PlanTasks ==
    {"open Calculator", "Otkroj Calculator", "zapusti kalkulyator",
     "otkroj brauzer", "otkroj https://ya.ru please",
     "najdi vakansii na avito.ru", "najdi kota google.com",
     "vklyuchi webcam", "zapusti Telegram.exe", "write a poem"}

InitPlan ==
    /\ InitAgentDefaults
    /\ InitNoLoop
    /\ pc = "task"
    /\ env \in [task : PlanTasks, first : FirstAnswers, second : SecondAnswers]
    /\ obs = [plan |-> <<>>, via |-> "none"]
    /\ step_result = NoStepResult

CreateTaskPlan ==
    /\ pc = "task"
    /\ pc' = "planned"
    /\ obs' = create_task_plan(env.task, env.first, env.second)
    /\ UNCHANGED <<agentVars, coordVars, iteration, current_plan, idx, executed,
                   prev_signature, repeat_fail_count, iterative,
                   stop_on_failure, env, step_result>>

SpecPlan == InitPlan /\ [][CreateTaskPlan]_vars


\* =========================================================== SpecClassify
\* One dispatched plan step of execute_plan: execute_tool (line 2621), the
\* failure classification (lines 2623-2646) and the second look at the
\* result of an analysis tool (lines 2698-2716).  None of the tools here is
\* looked at by _post_verify_ui_step, which keeps the status in any case.

\* int(rc): [ok, n]; ok is FALSE when int() raises
RECURSIVE ParseNat(_, _)
ParseNat(text, acc) ==
    IF text = "" THEN [ok |-> TRUE, n |-> acc]
    ELSE LET ds == {d \in 0..9 : Digits[d + 1] = SubSeq(text, 1, 1)}
         IN IF ds = {} THEN [ok |-> FALSE, n |-> 0]
            ELSE ParseNat(SubSeq(text, 2, Len(text)),
                          10 * acc + (CHOOSE d \in ds : TRUE))
PyIntOf(v) ==
    CASE v.t = "int" -> [ok |-> TRUE, n |-> v.n]
      [] v.t = "str" -> IF v.s = "" THEN [ok |-> FALSE, n |-> 0]
                        ELSE ParseNat(v.s, 0)
      [] OTHER -> [ok |-> FALSE, n |-> 0]

\* lines 2628-2645, for the value execute_tool returned
ErrorMeansFailed(v) == Truthy(v)
ClassifiedFailed(tool_name, result) ==
    IF result.kind = "none" THEN TRUE
    ELSE IF result.kind # "map" THEN FALSE
    ELSE IF ErrorMeansFailed(PyGet(result.map, "error")) THEN TRUE
    ELSE LET status == PyGet(result.map, "status")
             st == Lower(IF Truthy(status) THEN PyStr(status) ELSE "")
             rc == PyGet(result.map, "returncode")
         IN \/ st \in {"error", "failed"}
            \/ /\ tool_name \in LaunchTools
               /\ rc # PyNone
               /\ PyIntOf(rc).ok
               /\ PyIntOf(rc).n # 0

\* lines 2698-2716: an analysis that was to return coordinates and returned
\* none turns a success into a failure, and writes the error into the result
AnalysisFailed(tool_name, result, answer, requires_coords, status) ==
    /\ tool_name \in AnalysisTools
    /\ result.kind = "map"
    /\ ~(_extract_coordinate_analysis(answer).ok
         /\ _extract_coordinate_analysis(answer).ncoords > 0)
    /\ requires_coords
    /\ status = "success"

\* the record of the step: status and result as they are in the history
ClassifyDispatched(tool_name, dispatched, answer, requires_coords) ==
    LET result == dispatched.value
        status == IF ClassifiedFailed(tool_name, result) THEN "failed"
                  ELSE "success"
    IN IF AnalysisFailed(tool_name, result, answer, requires_coords, status)
       THEN [status |-> "failed",
             result |-> [kind |-> "map",
                         map |-> DictSet(result.map, "error",
                                         Str("vision_no_coordinates"))]]
       ELSE [status |-> status, result |-> result]

\* The raw results of the operations, and the calls of the steps.
ClassifyRows ==
    [status : {Absent, Str("success"), Str("FAILED"), Str("error")},
     error : {Absent, PyNone, Str(""), Str("boom")},
     returncode : {Absent, Num(0), Num(1), Str("2"), Str("x")},
     stdout : {Absent, Str("out")}]
ClassifyRaws ==
    {[kind |-> "none"], [kind |-> "bare", value |-> Str("")],
     [kind |-> "bare", value |-> Str("done")]}
    \cup {[kind |-> "map", map |-> DictOf(row)] : row \in ClassifyRows}
\* what the analysis tool returns for an answer of the analyzer
RawOfAnswer(a) ==
    [kind |-> "map",
     map |-> [k \in {"status", "analysis"} |->
                 IF k = "status" THEN Str(a.rstatus) ELSE Str(a.text)]]
ClassifyAnswers ==
    {AnsFailEmpty, AnsJsonSuccess, AnsPlainYes, AnsPlainNo, AnsToolError,
     AnsEmptyText}
StepCall(tool_name) ==
    [kind |-> "map", name |-> Str(tool_name),
     arguments |-> PyDict([k \in {"path", "rows"} |->
                              IF k = "rows" THEN PyList(2) ELSE Str("a.csv")])]
Answering(raw) ==
    [kwargs |-> [raises |-> FALSE, exc |-> "", raw |-> raw],
     positional |-> [raises |-> FALSE, exc |-> "", raw |-> raw]]
Failing ==
    [kwargs |-> [raises |-> TRUE, exc |-> "ValueError", raw |-> [kind |-> "none"]],
     positional |-> [raises |-> TRUE, exc |-> "ValueError",
                     raw |-> [kind |-> "none"]]]
ClassifyInputs ==
    {[tool |-> t, op |-> o, answer |-> AnsEmptyText, requires_coords |-> FALSE] :
        t \in {"read_file", "open_application", "write_csv_file", "no_such_tool"},
        o \in {Answering(r) : r \in ClassifyRaws} \cup {Failing}}
    \cup {[tool |-> "analyze_image", op |-> Answering(RawOfAnswer(a)),
           answer |-> a, requires_coords |-> rq] :
            a \in ClassifyAnswers, rq \in BOOLEAN}

InitClassify ==
    /\ InitAgentDefaults
    /\ InitNoLoop
    /\ pc = "step"
    /\ env \in ClassifyInputs
    /\ obs = [status |-> "", result |-> [kind |-> "none"]]
    /\ step_result = NoStepResult

DispatchAndClassify ==
    /\ pc = "step"
    /\ pc' = "classified"
    /\ obs' = ClassifyDispatched(env.tool,
                                 execute_tool(StepCall(env.tool), env.op),
                                 env.answer, env.requires_coords)
    /\ UNCHANGED <<agentVars, coordVars, iteration, current_plan, idx, executed,
                   prev_signature, repeat_fail_count, iterative,
                   stop_on_failure, env, step_result>>

SpecClassify == InitClassify /\ [][DispatchAndClassify]_vars


\* ================================================================= claims

\* C1: the iterative execute_plan performs at most max_iterations (60)
\* iterations of its outer loop however often the plan is replaced, and
\* against collaborators that fail every step and answer every request with
\* a new step it still returns, with a history that is not empty.
C1_TerminatesWithinCap ==
    /\ [](iteration <= max_iterations)
    /\ <>(pc = "done" /\ Len(executed) > 0)

\* C1 witness: the run that is ended by the cap, one record or more per
\* iteration.
C1_Witness ==
    /\ pc = "done"
    /\ iteration = max_iterations
    /\ Len(executed) >= max_iterations
    /\ env.replans >= max_iterations - 1

\* C2 (as claimed): after every classified outcome of the loop the failure
\* counter of each (description, tool) pair equals the number of consecutive
\* failed outcomes of that pair since its last success or the run's start.
C2_CounterCountsConsecutiveFailures ==
    \A k \in DOMAIN env.consec :
        _count_failed_attempts(failed_attempts, k[1], k[2]) = env.consec[k]

\* C3 (as claimed): an increment or a reset performed for one (description,
\* tool) pair leaves the counter of every different pair unchanged.
C3_OtherPairsUnchanged ==
    [][\A q \in CounterPairs :
          q # <<obs'.description, obs'.tool>>
          => _count_failed_attempts(failed_attempts', q[1], q[2])
             = _count_failed_attempts(failed_attempts, q[1], q[2])]_vars

\* C4: within a run (and across the runs of an agent) the frozen set only
\* grows: no step of the loop removes a tool from it.
C4_FrozenOnlyGrows ==
    [][frozen_tools \subseteq frozen_tools']_vars

\* C4 witness: a second tool was frozen while the first one stayed frozen.
C4_Witness ==
    /\ obs.act = "failure"
    /\ obs.frozen_before # {}
    /\ obs.dispatched \notin obs.frozen_before
    /\ frozen_tools = obs.frozen_before \cup {obs.dispatched}

\* C5 (as claimed): every run_task starts with an empty frozen set, also the
\* second run on the same agent.
C5_RunStartsUnfrozen ==
    obs.act \in {"run_task", "run_task_no_plan"} => frozen_tools = {}

C7_StallInstallsFallback ==
    (obs.act = "failure" /\ obs.stall)
        => /\ Len(current_plan) = 1
           /\ current_plan[1].tool = "dynamic_sequence"
           /\ IsDynamicSequence("dynamic_sequence", current_plan[1].args)
           /\ (obs.step.tool = "read_file"
                   => current_plan[1] = FileFallback(obs.step.args.filepath))

C9_VerificationKeepsStatus ==
    pc = "verified" => step_result.status = "success"

\* C9 witness: a click whose verification found no confirmation in any attempt.
C9_Witness ==
    /\ pc = "verified"
    /\ step_result.tool = "click_at_coordinates"
    /\ step_result.verification = "warning"
    /\ Len(step_result.verification_attempts) = gui_verify_max_attempts
    /\ \A i \in 1..Len(step_result.verification_attempts) :
          ~step_result.verification_attempts[i].ok

\* The case of C10: policy always, a successful click at usable coordinates,
\* refocus retry enabled, and the analyzer answering
\* {"status":"fail","coordinates":[]} to every analysis.
C10_Case ==
    /\ pc = "verified"
    /\ step_result.tool = "click_at_coordinates"
    /\ step_result.status = "success"
    /\ step_result.args.x >= 0 /\ step_result.args.y >= 0
    /\ gui_verify_policy = "always"
    /\ gui_refocus_retry
    /\ ~obs.raises
    /\ obs.first = AnsFailEmpty /\ obs.failKind = AnsFailEmpty /\ obs.confirmAt = 0

\* C10 (as claimed): in that case the step ends with verification.status =
\* warning and exactly max_attempts entries in verification_attempts, for
\* every configured max_attempts >= 1.
C10_ExactlyMaxAttempts ==
    C10_Case => /\ step_result.verification = "warning"
                /\ Len(step_result.verification_attempts) = gui_verify_max_attempts

\* C10 (amended): the number of entries is the smaller of max_attempts and the
\* number of configured refocus offsets.
C10_AttemptsBoundedByOffsets ==
    C10_Case => /\ step_result.verification = "warning"
                /\ Len(step_result.verification_attempts)
                   = Min(gui_verify_max_attempts, Len(gui_refocus_offsets))

\* C10 witness: the default five offsets with a larger configured maximum.
C10_Witness ==
    /\ C10_Case
    /\ gui_refocus_offsets = DefaultRefocusOffsets
    /\ gui_verify_max_attempts > Len(DefaultRefocusOffsets)
    /\ Len(step_result.verification_attempts) = Len(DefaultRefocusOffsets)


\* C11: for a task that asks to send a message, check_task_completion
\* answers (True, None) without a model call whenever the history holds a
\* successful type_text step described with "message", a successful
\* press_key step described with "send" and a successful screenshot step
\* described with "final"; records with status failed or skipped do not
\* stand in for any of the three: when the task asks for no search, the
\* heuristic answers only if the three successful records are there.
C11_Marked(tool_name, word) ==
    \E i \in 1..Len(executed) :
        /\ executed[i].tool = tool_name
        /\ executed[i].status = "success"
        /\ Contains(Lower(executed[i].description), word)
C11_ThreeSuccessful ==
    /\ C11_Marked("type_text", "message")
    /\ C11_Marked("press_key", "send")
    /\ C11_Marked("take_desktop_screenshot", "final")
C11_SendMessageTask == ContainsAny(Lower(env.task), {"send", "message", "write"})
C11_SearchTask == ContainsAny(Lower(env.task), {"search", "find"})
C11_MessageTaskDoneWithoutModel ==
    pc = "checked" =>
        /\ (C11_SendMessageTask /\ C11_ThreeSuccessful)
               => (obs.completed /\ obs.next_step = NoStep
                   /\ ~obs.model_called /\ obs.via = "heuristic")
        /\ (obs.via = "heuristic" /\ ~C11_SearchTask) => C11_ThreeSuccessful

\* C11 witness: the three successful records in a history of a message task,
\* answered by the heuristic.
C11_Witness ==
    /\ pc = "checked"
    /\ env.task = "Send a message to Bob"
    /\ Len(executed) = 3
    /\ C11_ThreeSuccessful
    /\ obs.completed
    /\ ~obs.model_called


\* C12 (as claimed): the normalized result has status, stdout and stderr
\* that are not None, and when the raw result did not set status, status is
\* "error" exactly when error is not None.
C12_StatusNotPreset ==
    env.kind = "map" => PyGet(env.map, "status") = PyNone
C12_FieldsNotNull ==
    /\ {"status", "stdout", "stderr"} \subseteq DOMAIN obs
    /\ obs["status"] # PyNone /\ obs["stdout"] # PyNone /\ obs["stderr"] # PyNone
C12_ErrorIffErrorNotNull ==
    pc = "normalized" =>
        /\ C12_FieldsNotNull
        /\ C12_StatusNotPreset
               => (obs["status"] = Str("error") <=> PyGet(obs, "error") # PyNone)

\* What the normalizer does guarantee: the three fields are not None, and
\* when the raw result did not set status, status is "error" exactly when
\* error is a value Python takes as true (not None, not "", not 0), and
\* "success" otherwise.
C12_ErrorIffErrorTruthy ==
    pc = "normalized" =>
        /\ C12_FieldsNotNull
        /\ C12_StatusNotPreset
               => /\ obs["status"] = Str("error")
                         <=> PyGet(obs, "error") \notin {PyNone, Str(""), Num(0)}
                  /\ obs["status"] \in {Str("error"), Str("success")}

\* The failing case of C12: a map with an empty error text and no status,
\* normalized to success with the error kept.
C12_EmptyErrorIsSuccess ==
    /\ pc = "normalized"
    /\ env.kind = "map"
    /\ "status" \notin DOMAIN env.map
    /\ PyGet(env.map, "error") = Str("")
    /\ obs["status"] = Str("success")
    /\ obs["error"] = Str("")
    /\ obs["stdout"] = Str("15")


\* C13 (as claimed): every error outcome of execute_tool (no tool name,
\* unknown tool, rejected arguments, an exception of the operation) is a
\* result with status "error" and an error message that is not None, and
\* with no tool name no operation is called.
C13_ErrorOutcomes == {"no_name", "unknown_tool", "bad_args", "exception"}
C13_ErrorsCarryStatusError ==
    (pc = "dispatched" /\ obs.via \in C13_ErrorOutcomes) =>
        /\ ~obs.raised
        /\ obs.value.kind = "map"
        /\ PyGet(obs.value.map, "status") = Str("error")
        /\ PyGet(obs.value.map, "error") # PyNone
        /\ obs.via = "no_name" => obs.invoked = 0

\* What the error outcomes do carry: an error message, no status key, and
\* no call of the operation unless the outcome is an exception.
C13_ErrorsCarryMessageOnly ==
    (pc = "dispatched" /\ obs.via \in C13_ErrorOutcomes) =>
        /\ ~obs.raised
        /\ obs.value.kind = "map"
        /\ DOMAIN obs.value.map = {"error"}
        /\ Truthy(obs.value.map["error"])
        /\ obs.via # "exception" => obs.invoked = 0

\* C14: execute_tool returns a value for every tool call: a call that is
\* not a map, an unknown tool, an operation that raises when called with
\* keyword arguments and again when called with one positional argument.
C14_NeverPropagates ==
    pc = "dispatched" => (~obs.raised /\ obs.via # "raised")

\* C14 witness: the operation raised TypeError, was called a second time,
\* raised again, and execute_tool returned an error map.
C14_Witness ==
    /\ pc = "dispatched"
    /\ env.call.kind = "map"
    /\ env.op.kwargs.raises /\ env.op.kwargs.exc = "TypeError"
    /\ env.op.positional.raises
    /\ obs.invoked = 2
    /\ ~obs.raised
    /\ obs.via = "exception"


\* C17 (as claimed): a JSON object with the keys tool and description is
\* returned as the list of that one object, whatever other keys it has.
C17_StepObject ==
    /\ env.t = "dict"
    /\ {"tool", "description"} \subseteq DOMAIN env.d
C17_AlwaysOneElementList ==
    (pc = "extracted" /\ C17_StepObject) => obs = JList(<<env>>)

\* C17 (amended): such an object is never returned bare: the result is a
\* list, and it is the list of that one object unless the object has a list
\* under plan, steps or response, or a thinking text that decodes to a list
\* or to an object with a list under plan or steps.
C17_CarriesInnerList ==
    \/ \E key \in {"plan", "steps", "response"} :
           key \in DOMAIN env.d /\ env.d[key].t = "jlist"
    \/ /\ "thinking" \in DOMAIN env.d
       /\ env.d["thinking"] \in
              {Str("[]"), Str("{\"plan\": []}"), Str("{\"steps\": [1]}")}
C17_ListNeverBare ==
    (pc = "extracted" /\ C17_StepObject) =>
        /\ obs.t = "jlist"
        /\ ~C17_CarriesInnerList => obs = JList(<<env>>)

\* C17 witness: a step object with further keys, among them a thinking
\* text that decodes to no plan, returned as a one-element list.
C17_Witness ==
    /\ pc = "extracted"
    /\ C17_StepObject
    /\ DOMAIN env.d = {"tool", "description", "args", "thinking", "plan", "response"}
    /\ env.d["thinking"] = Str("{\"plan\": 3}")
    /\ obs = JList(<<env>>)


\* C15: a plan step whose tool is frozen is appended to the history with
\* status skipped and no tool is dispatched for it; in iterative mode
\* check_task_completion is asked, and a next step it supplies becomes the
\* current plan (the for loop is left), a completed task ends the run, and
\* without either the loop goes on to the next plan element.
C15_FrozenStepSkipped ==
    [][obs'.act = "skip" =>
          /\ obs'.step = current_plan[idx]
          /\ obs'.step.tool \in frozen_tools
          /\ executed' = Append(executed, StepRecord(obs'.step, "skipped"))
          /\ obs'.dispatched = None
          /\ obs'.sub_dispatched = <<>>
          /\ frozen_tools' = frozen_tools
          /\ failed_attempts' = failed_attempts
          /\ (iterative /\ obs'.answer.kind = "next")
                 => (current_plan' = <<obs'.answer.step>> /\ pc' = "tail")
          /\ (iterative /\ obs'.answer.kind = "done")
                 => (pc' = "done" /\ current_plan' = current_plan)
          /\ (~iterative \/ obs'.answer.kind = "none")
                 => (current_plan' = current_plan /\ idx' = idx + 1)]_vars

\* C15 witness: a frozen step was skipped and the step the oracle supplied
\* is the current plan.
C15_Witness ==
    /\ obs.act = "skip"
    /\ obs.step.tool \in frozen_tools
    /\ executed[Len(executed)].status = "skipped"
    /\ obs.answer.kind = "next"
    /\ current_plan = <<obs.answer.step>>
    /\ pc = "tail"


\* C16 (as claimed): no exception leaves execute_plan: whatever the plan
\* element is (no object, no tool name), its handling ends in a history
\* record with status failed.
C16_NeverPropagates ==
    /\ pc # "raised"
    /\ obs.act \in {"raise", "not_object"} =>
           (Len(executed) > 0 /\ executed[Len(executed)].status = "failed")

\* What holds for a step without a tool name: the ValueError of line 2597
\* becomes a failed record and the loop goes on or breaks.
C16_MissingToolIsFailedRecord ==
    obs.act = "raise" =>
        /\ pc # "raised"
        /\ Len(executed) > 0
        /\ executed[Len(executed)].status = "failed"
        /\ executed[Len(executed)].tool = None


\* C19: when create_task_plan yields an empty plan, run_task dispatches no
\* tool, returns (no execute_plan is started, nothing is raised) and the
\* entry it returns has an execution field that carries an error; the
\* history of executed steps and the agent's counters are left alone.
C19_EmptyPlanReturnsError ==
    [][obs'.act = "run_task_no_plan" =>
          /\ obs'.dispatched = None
          /\ obs'.sub_dispatched = <<>>
          /\ pc' = "idle"
          /\ env'.entry.plan = <<>>
          /\ env'.entry.execution.error # ""
          /\ executed' = executed
          /\ failed_attempts' = failed_attempts
          /\ frozen_tools' = frozen_tools]_vars

\* C19 witness: run_task returned the error entry after an earlier run
\* that executed steps.
C19_Witness ==
    /\ obs.act = "run_task_no_plan"
    /\ pc = "idle"
    /\ env.entry = NoPlanEntry
    /\ env.run = 2
    /\ Len(executed) > 0


\* C18 (as claimed): when neither model answer is a usable plan, the plan
\* created for the task "open Calculator" is the rule-based one: exactly one
\* step, with tool open_application and app_name "calc".
C18_NoModelPlan ==
    env.first # "plan" /\ env.second \in {"no_list", "empty_list"}
C18_CalculatorPlan ==
    /\ Len(obs.plan) = 1
    /\ obs.plan[1].tool = "open_application"
    /\ obs.plan[1].args = [app_name |-> "calc"]
C18_OpenCalculatorFallsBack ==
    (pc = "planned" /\ env.task = "open Calculator" /\ C18_NoModelPlan)
        => C18_CalculatorPlan

\* What the rules do: the calculator plan is created for the tasks that
\* carry one of the two Russian launch verbs and a calculator word, and
\* "open Calculator" gets no plan at all.
C18_RussianVerbFallsBack ==
    (pc = "planned" /\ C18_NoModelPlan) =>
        /\ env.task \in {"Otkroj Calculator", "zapusti kalkulyator"}
               => (C18_CalculatorPlan /\ obs.via = "rules")
        /\ env.task = "open Calculator" => (obs.plan = <<>> /\ obs.via = "none")


\* C20 (as claimed): the recorded status of a dispatched step is failed
\* exactly when the operation's raw result is null or empty, or the
\* recorded result carries an error that is not None, or its status is
\* error or failed (in any case of letters), or, for a launch tool, it
\* carries a return code that is not zero; in every other case it is
\* success.
C20_Raw == env.op.kwargs.raw
C20_OperationReturned ==
    env.tool \in DispatchTools /\ ~env.op.kwargs.raises
C20_RawNullOrEmpty ==
    /\ C20_OperationReturned
    /\ \/ C20_Raw.kind = "none"
       \/ (C20_Raw.kind = "map" /\ DOMAIN C20_Raw.map = {})
       \/ (C20_Raw.kind = "bare" /\ C20_Raw.value = Str(""))
C20_Recorded(key) ==
    IF obs.result.kind = "map" THEN PyGet(obs.result.map, key) ELSE PyNone
C20_FailureConditions ==
    \/ C20_RawNullOrEmpty
    \/ C20_Recorded("error") # PyNone
    \/ C20_Recorded("status") \in
           {Str("error"), Str("failed"), Str("FAILED"), Str("ERROR")}
    \/ /\ env.tool \in {"open_application", "open_application_advanced"}
       /\ C20_Recorded("returncode") \in {Num(1), Str("2")}
C20_FailedExactlyWhen ==
    pc = "classified" =>
        /\ obs.status \in {"failed", "success"}
        /\ obs.status = "failed" <=> C20_FailureConditions

\* What the classification does: an empty raw result and an error that is
\* set but false are not failures.
C20_FailedExactlyWhenTrue ==
    pc = "classified" =>
        (obs.status = "failed" <=>
            \/ obs.result.kind = "none"
            \/ C20_Recorded("error") \notin {PyNone, Str(""), Num(0)}
            \/ C20_Recorded("status") \in
                   {Str("error"), Str("failed"), Str("FAILED"), Str("ERROR")}
            \/ /\ env.tool \in {"open_application", "open_application_advanced"}
               /\ C20_Recorded("returncode") \in {Num(1), Str("2")})


\* ==================================================== claims C21 to C30
\* s is an initial part of t
IsPrefixOf(s, t) == Len(s) <= Len(t) /\ SubSeq(t, 1, Len(s)) = s

UsableArgs(args) ==
    /\ "x" \in DOMAIN args
    /\ "y" \in DOMAIN args
    /\ args.x # 0
    /\ args.y # 0
\* the arguments with x and y replaced
WithCoords(args, coords) == SetItem(SetItem(args, "x", coords[1]), "y", coords[2])

\* C22 (as claimed): a click_at_coordinates step is dispatched with its
\* arguments as given when they name usable coordinates, and otherwise with
\* the coordinates of the most recent analysis, or else of the most recent
\* located icon, or else as given.
C22_DispatchedWithFoundCoordinates ==
    (obs.act \in {"success", "failure"} /\ obs.call.name = "click_at_coordinates")
        => obs.call.arguments =
               IF UsableArgs(StepArgs(obs.step)) THEN StepArgs(obs.step)
               ELSE IF Usable(obs.analyzed_before)
               THEN WithCoords(StepArgs(obs.step), obs.analyzed_before)
               ELSE IF Usable(obs.icon_before)
               THEN WithCoords(StepArgs(obs.step), obs.icon_before)
               ELSE StepArgs(obs.step)

\* C22, what the loop does: every step is dispatched with the arguments it
\* carries when it is taken up; the coordinates are written into the plan
\* element after the dispatch (lines 2763-2777).
C22_DispatchedAsGiven ==
    (obs.act \in {"success", "failure"} /\ obs.call.name = "click_at_coordinates")
        => obs.call.arguments = StepArgs(obs.step)


\* the handling of a failed step of an iterative run with stop_on_failure
\* has ended without a replacement plan (line 2934)
UnrepairedFailure ==
    /\ pc = "tail"
    /\ obs.act \in {"failure", "remarked"}
    /\ obs.kept
    /\ iterative
    /\ stop_on_failure

\* C23 (as claimed): in an iterative run with stop_on_failure, a failed step
\* that got no replacement from the recovery engine or the single-step fix
\* ends the run: after the error-recovery sub-plan execute_plan returns and
\* no step of the current plan is dispatched any more.
C23_AbortsAfterUnrepairedFailure ==
    [][UnrepairedFailure => pc' = "done"]_vars

\* C23, what the loop does: the break of line 2934 leaves the for loop only;
\* the plan is not empty, so the while loop starts it again from its first
\* step as long as the iteration cap allows.
C23_PlanStartsAgain ==
    [][UnrepairedFailure =>
          /\ current_plan' = current_plan
          /\ IF LoopGuard(iteration)
             THEN pc' = "for" /\ idx' = 1 /\ iteration' = iteration + 1
             ELSE pc' = "done"]_vars


\* the tools of a plan, in order
PlanTools(plan) == [i \in 1..Len(plan) |-> plan[i].tool]
\* the handling of a plan element ends the for loop
EndsTheLoop == pc = "for" /\ pc' # "for"

C25_IdenticalFixNotInstalled ==
    obs.fixed => current_plan # <<obs.step>>


\* the step the last action dispatched has now failed n times or more in a
\* row (consecutive failed outcomes of its description and tool)
FailedInARow(n) ==
    /\ obs.act = "failure"
    /\ iterative
    /\ DictGet(env.consec, <<obs.step.description, obs.step.tool>>) >= n

\* C26 (as claimed): at the third consecutive failure of a (description,
\* tool) step in an iterative run the recovery engine's cascade is entered
\* (the counter it reads has reached the threshold) and the step it
\* synthesizes is the plan; for a GUI tool that step is the GUI sequence.
C26_ThirdFailureInvokesCascade ==
    FailedInARow(RepeatedFailureThreshold)
        => /\ _count_failed_attempts(failed_attempts, obs.step.description,
                                     obs.step.tool) >= RepeatedFailureThreshold
           /\ ~obs.kept
           /\ ~obs.fixed
           /\ (obs.step.tool \in GuiTools => current_plan = <<GuiFallback>>)

\* C26, what the loop does: no counter ever exceeds 1, however many failures
\* came in a row, because line 2675 clears the counter of the step before
\* line 2852 increments it; the cascade is never entered.
C26_CounterNeverExceedsOne ==
    \A k \in DOMAIN failed_attempts : failed_attempts[k] <= 1


\* C27: _handle_repeated_failure returns None while the counter of the step
\* is below 3; from 3 on it returns the step of the first branch that
\* applies, in the order application launch, GUI interaction, file operation
\* (only with a file path among the arguments), browser operation, and the
\* model's fallback when none applies; click_element, a GUI tool and a
\* browser tool, gets the GUI sequence.
C27_CascadeOrder ==
    pc = "returned" =>
        LET st == env.step
            r == obs.result
        IN /\ env.count < 3 => r = NoStep
           /\ env.count >= 3 =>
                  r = IF BranchApplies("launch", st)
                      THEN LaunchFallback(AppArg(st))
                      ELSE IF BranchApplies("gui", st) THEN GuiFallback
                      ELSE IF BranchApplies("file", st)
                      THEN FileFallback(FailedStepFilePath(st))
                      ELSE IF BranchApplies("browser", st)
                      THEN BranchStep("browser", st)
                      ELSE env.llm
           /\ (env.count >= 3 /\ Lower(FailedStepTool(st)) = "click_element")
                  => r = GuiFallback
           /\ (r # NoStep /\ r.tool = "dynamic_sequence"
                   /\ r.args.sequence[1].tool = "read_file")
                  => FailedStepFilePath(st) # None

\* C27 witness: click_element with its counter at 3 got the GUI sequence,
\* although the browser branch applies to it as well.
C27_Witness ==
    /\ pc = "returned"
    /\ env.count = 3
    /\ FailedStepTool(env.step) = "click_element"
    /\ BranchApplies("browser", env.step)
    /\ obs.result = GuiFallback


\* C28 (as claimed): when the oracle answers (false, None) with no plan left
\* and the one last-resort request returns a step with a tool, that step is
\* the plan and is dispatched next.
C28_LastResortStepDispatched ==
    (obs.act = "tail" /\ obs.last_resort # NoStep /\ obs.last_resort.tool # None)
        => /\ pc = "for"
           /\ current_plan = <<obs.last_resort>>
           /\ idx = 1

\* C28, what the loop does: the step becomes current_plan (line 2962) and
\* the break of line 2966 ends the while loop, so execute_plan returns the
\* history without dispatching it.
C28_LastResortEndsTheRun ==
    (obs.act = "tail" /\ obs.last_resort # NoStep)
        => pc = "done" /\ current_plan = <<obs.last_resort>>


OracleSuppliedNext ==
    /\ obs.act = "success"
    /\ obs.asked
    /\ obs.answer.kind = "next"

C31_NeverMeansNoVerification ==
    (pc = "verified" /\ gui_verify_policy = "never")
        => /\ step_result.verification = None
           /\ step_result.verification_attempts = <<>>

\* C31 (what the code does): with policy "never" the record stays without
\* verification for every tool outside navigate_to_url, fill_form and
\* click_element; for those three the browser screenshot is taken before
\* the policy is read.
C31_NeverSparesOnlyDesktopTools ==
    (pc = "verified" /\ gui_verify_policy = "never")
        => IF step_result.tool \in WebVerifiedTools
           THEN step_result.verification # None
           ELSE /\ step_result.verification = None
                /\ step_result.verification_attempts = <<>>


\* the set of the elements of a sequence
Range(seq) == {seq[k] : k \in DOMAIN seq}

\* C32 (as claimed): no action of the loop passes a tool to execute_tool
\* that was in the frozen set when the action started: not as the plan
\* step, not in a recovery sub-plan, not in the verification of a click.
C32_FrozenToolNeverDispatched ==
    /\ obs.dispatched \notin obs.frozen_before
    /\ Range(obs.sub_dispatched) \cap obs.frozen_before = {}
    /\ Range(obs.verify_dispatched) \cap obs.frozen_before = {}

\* C32 (what the code does): the tool of a plan step and the tools of a
\* recovery sub-plan are never dispatched while frozen; the frozen tools
\* that reach execute_tool are those _post_verify_ui_step calls.
C32_FrozenToolOnlyInVerification ==
    /\ obs.dispatched \notin obs.frozen_before
    /\ Range(obs.sub_dispatched) \cap obs.frozen_before = {}


\* the for loop of an iterative run has taken up the last element of the
\* plan and ended without break, and the while loop is to test its guard
PlanRanOut == pc = "tail" /\ iterative /\ obs.ran_out

\* C33 (as claimed): when the for loop of an iterative run has run through
\* the plan to its last element, the while loop does not start the same
\* plan again from its first element.
C33_PlanNotStartedAgain ==
    [][PlanRanOut => ~(pc' = "for" /\ idx' = 1 /\ current_plan' = current_plan)]_vars

\* C33 (what the code does): the plan that ran through is not empty, so the
\* completion request of line 2950 is not made and the while loop starts the
\* same plan again from its first element as long as its cap allows.
C33_PlanStartedAgain ==
    [][PlanRanOut =>
          /\ current_plan' = current_plan
          /\ IF LoopGuard(iteration)
             THEN pc' = "for" /\ idx' = 1 /\ iteration' = iteration + 1
             ELSE pc' = "done"]_vars


\* C34 (as claimed): the failure of a step of an error-recovery sub-plan
\* starts no further error-recovery sub-plan: at most one execute_plan call
\* of line 2929 is on the stack.
C34_RecoveryOneLevelDeep == obs.sub_depth <= 1

\* C34 (what the code does): the nested call is made with
\* stop_on_failure=True and passes line 2921 itself, so every failing
\* recovery plan that the model answers with a plan nests one call deeper;
\* the depth is bounded by the number of plans the model hands out.
C34_RecoveryAsDeepAsTheAnswers == obs.sub_depth <= MaxNesting


\* The plan element an action took up is one of the caller's dicts: line
\* 2425 copies the list and not its elements, and every assignment of a new
\* list to current_plan is followed by a break (lines 2487, 2618, 2668, 2762,
\* 2809, 2822, 2887, 2901, 2915), so the for loop of the first pass of the
\* while loop iterates the dicts of the plan the caller passed.
TakenFromCallersPlan == obs.act \in StepActs /\ iteration = 1

\* C35 (as claimed): execute_plan leaves the steps of the plan passed by its
\* caller unchanged: a step of the caller's plan has, after the loop handled
\* it, the arguments it had before.
C35_CallersStepsUnchanged ==
    TakenFromCallersPlan => obs.step_after = obs.step

\* C35 (what the code does): the copy of line 2425 is shallow, so the
\* rewritten question of an analysis step (lines 2605-2606) and the
\* coordinates put into a click step (lines 2763-2777) are written into the
\* caller's dict; tool and description stay, and steps of other tools keep
\* their arguments.
C35_CallersStepsRewrittenInPlace ==
    TakenFromCallersPlan =>
        /\ obs.step_after.tool = obs.step.tool
        /\ obs.step_after.description = obs.step.description
        /\ (obs.step_after # obs.step
                => obs.step.tool \in AnalysisTools \cup {"click_at_coordinates"})
        /\ (/\ obs.act \in {"success", "failure", "remarked"}
            /\ obs.step.tool \in AnalysisTools
            /\ "question" \in DOMAIN StepArgs(obs.step)
            /\ obs.step_after.tool # "click_at_coordinates")
               => obs.step_after.args.question =
                      _format_coordinate_question(obs.step.args.question)


\* C36 (as claimed): once cancel_scheduled_task has returned success for a
\* task scheduled once, the task's action is not executed, under every
\* interleaving of the cancelling thread with the timer's thread.
C36_CancelledTaskNeverRuns ==
    (env.kind = "oneshot" /\ env.cancel_ok) => env.runs = env.runs_at_cancel

\* C36 (what the code does): the action is executed after the successful
\* return only when the timer's thread had passed the test of line 624
\* before line 717 wrote "cancelled"; a timer that had not fired when line
\* 712 cancelled it never calls the function.
C36_RunsOnlyPastTheTest ==
    /\ (env.kind = "oneshot" /\ env.cancel_ok
            /\ env.runs > env.runs_at_cancel)
           => env.t_at_mark \in {"mark", "act"}
    /\ (env.kind = "oneshot" /\ env.t_at_mark = "waiting") => env.runs = 0

\* C37 (as claimed): once cancel_scheduled_task has returned success for a
\* recurring task, the runner thread executes the action no more and the
\* status stays cancelled in every later state.
C37_CancelledRecurringStaysCancelled ==
    (env.kind = "recurring" /\ env.cancel_ok)
        => (env.runs = env.runs_at_cancel /\ env.status = "cancelled")

\* C37 (what the code does): the call after the cancellation returns at
\* line 624, and line 589 then writes "scheduled" over "cancelled", so the
\* iteration after that executes the action again; the action runs after
\* the successful return only after that write, or when the runner had
\* passed the test of line 624 before line 717 wrote "cancelled".
C37_RunnerRearmsTheTask ==
    (env.kind = "recurring" /\ env.cancel_ok
         /\ env.runs > env.runs_at_cancel)
        => (env.rearmed \/ env.t_at_mark \in PastTheTest)

=============================================================================
